---------------------------- MODULE Spec2Model ----------------------------
(***************************************************************************)
(* A model of the kvault program (Kamino-Finance/kvault): the vault        *)
(* ledger, fee accrual, deposit and withdraw with their fixed-point        *)
(* rounding, as state machines over the VaultState record.                 *)
(*                                                                         *)
(* Fixed point.  The program's Fraction is fixed::types::U68F60: an        *)
(* unsigned integer of "bits" read as bits / 2^60.  The model keeps the    *)
(* same representation and the same integer operations on the bits, with   *)
(* FRAC_BITS fractional bits instead of 60 so that the values stay inside  *)
(* the model checker's integers.  Every Fraction below is its bits.  The   *)
(* program multiplies in 128 or 256 bits before it divides; MulDiv does    *)
(* the same without a wide product.  Token amounts stay below 2^FRAC_BITS, *)
(* as a u64 amount below 2^60 does in the program.                         *)
(***************************************************************************)
EXTENDS Integers, Sequences, FiniteSets, TLC

VARIABLES
    vault,      \* the VaultState account
    reserves,   \* the klend reserves: exchange rate, staleness
    balances,   \* the token accounts around the vault
    clock,      \* the Clock sysvar: slot and unix_timestamp
    last        \* the outcome of the last instruction (history)

vars == <<vault, reserves, balances, clock, last>>

---------------------------------------------------------------------------
(* Bounds of the model *)

\* Fractional bits of a Fraction in the model (60 in the program).
FRAC_BITS == 12

\* Slots of the allocation table in the model (25 in the program).
MAX_RESERVES == 3

---------------------------------------------------------------------------
(* Program constants *)

FULL_BPS == 10000
MAX_MGMT_FEE_BPS == 1000
\* SECONDS_PER_YEAR.ceil() of the f64 365.242199 * 24 * 60 * 60
SECONDS_PER_YEAR == 31556926
UPPER_LIMIT_MIN_WITHDRAW_AMOUNT == 1000
INITIAL_DEPOSIT_AMOUNT == 1000
\* u64::MAX, as far as the model's amounts are concerned: an amount above
\* it does not fit a u64
U64_MAX == 200000

\* Pubkey::default(): the reserve identity of an empty slot
DefaultPubkey == 0

\* The identities of the klend reserves
ReserveKeys == {1, 2}

---------------------------------------------------------------------------
(* Fraction: the operations the program uses, on the bits *)

Scale == 2 ^ FRAC_BITS

\* `let`: Let([x \in {e} |-> body]) is body with x bound to the value of e
Let(f) == f[CHOOSE x \in DOMAIN f : TRUE]

Min(a, b) == IF a <= b THEN a ELSE b

\* Fraction::from(u64)
FractionFrom(n) == n * Scale

to_floor(f) == f \div Scale

MutCeilAsFloor(f) == f \div Scale

to_ceil(f) == (f + Scale - 1) \div Scale

\* no value has a fractional part
MutFracZero(f) == 0

frac(f) == f % Scale

\* <<quotient, remainder>> of a * b by c, by doubling over the bits of b
RECURSIVE MulDivQR(_, _, _)
MulDivQR(a, b, c) ==
    IF b = 0 THEN <<0, 0>>
    ELSE LET half == MulDivQR(a, b \div 2, c)
             add == IF b % 2 = 1 THEN a ELSE 0
             rest == 2 * half[2] + (add % c)
         IN <<2 * half[1] + (add \div c) + (rest \div c), rest % c>>

\* floor(a * b / c) and ceil(a * b / c) of the full product
MulDiv(a, b, c) == IF a >= b THEN MulDivQR(a, b, c)[1] ELSE MulDivQR(b, a, c)[1]

MulDivCeil(a, b, c) ==
    LET qr == IF a >= b THEN MulDivQR(a, b, c) ELSE MulDivQR(b, a, c)
    IN IF qr[2] > 0 THEN qr[1] + 1 ELSE qr[1]

\* Fraction * Fraction: the wide product shifted back, truncated
FractionMul(a, b) == MulDiv(a, b, Scale)

\* Fraction::from_num(bps) / 10_000
from_bps(bps) == FractionFrom(bps) \div FULL_BPS

\* the share of one unit of weight, whatever the numerator
MutShareUnweighted(f, numerator, denominator) ==
    IF numerator = 0 THEN 0 ELSE MulDiv(f, 1, denominator)

\* self * numerator / denominator
mul_int_ratio(f, numerator, denominator) == MulDiv(f, numerator, denominator)

full_mul_int_ratio(f, numerator, denominator) == MulDiv(f, numerator, denominator)

full_mul_int_ratio_ceil(f, numerator, denominator) ==
    MulDivCeil(f, numerator, denominator)

\* saturating_sub
SatSub(a, b) == IF a >= b THEN a - b ELSE 0

---------------------------------------------------------------------------
(* klend's CollateralExchangeRate of a reserve: collateral_supply ctokens  *)
(* stand for liquidity (a Fraction) tokens.                                *)

fraction_collateral_to_liquidity(rate, collateral_f) ==
    MulDiv(collateral_f, rate.liquidity, FractionFrom(rate.collateral_supply))

fraction_liquidity_to_collateral(rate, liquidity_f) ==
    MulDiv(liquidity_f, FractionFrom(rate.collateral_supply), rate.liquidity)

fraction_liquidity_to_collateral_ceil(rate, liquidity_f) ==
    MulDivCeil(liquidity_f, FractionFrom(rate.collateral_supply), rate.liquidity)

liquidity_to_collateral_ceil(rate, liquidity_amount) ==
    to_ceil(fraction_liquidity_to_collateral_ceil(rate, FractionFrom(liquidity_amount)))

\* every reserve trades one ctoken for one token
MutRateOneToOne(reserve) == [collateral_supply |-> 1, liquidity |-> Scale]

collateral_exchange_rate(reserve) ==
    [collateral_supply |-> reserve.collateral_supply, liquidity |-> reserve.liquidity]

---------------------------------------------------------------------------
(* VaultState and VaultAllocation *)

\* VaultAllocation::default()
DefaultAllocation ==
    [reserve |-> DefaultPubkey,
     ctoken_vault |-> DefaultPubkey,
     target_allocation_weight |-> 0,
     token_allocation_cap |-> U64_MAX,
     ctoken_allocation |-> 0,
     last_invest_slot |-> 0,
     token_target_allocation_sf |-> 0]

\* A slot of the zeroed account init_vault starts from
ZeroedAllocation == [DefaultAllocation EXCEPT !.token_allocation_cap = 0]

Slots == 1..MAX_RESERVES

\* VaultState::zeroed() with the identity fields init_vault sets
ZeroedVault ==
    [vault_admin_authority |-> "admin",
     pending_admin |-> "none",
     allocation_admin |-> "admin",
     token_available |-> 0,
     shares_issued |-> 0,
     available_crank_funds |-> 0,
     unallocated_weight |-> 0,
     unallocated_tokens_cap |-> 0,
     performance_fee_bps |-> 0,
     management_fee_bps |-> 0,
     last_fee_charge_timestamp |-> 0,
     prev_aum_sf |-> 0,
     pending_fees_sf |-> 0,
     vault_allocation_strategy |-> [i \in Slots |-> ZeroedAllocation],
     min_deposit_amount |-> 0,
     min_withdraw_amount |-> 0,
     min_invest_amount |-> 0,
     min_invest_delay_slots |-> 0,
     crank_fund_fee_per_reserve |-> 0,
     cumulative_earned_interest_sf |-> 0,
     cumulative_mgmt_fees_sf |-> 0,
     cumulative_perf_fees_sf |-> 0,
     creation_timestamp |-> 0]

get_pending_fees(v) == v.pending_fees_sf

get_prev_aum(v) == v.prev_aum_sf

get_reserves_count(v) ==
    Cardinality({i \in Slots : v.vault_allocation_strategy[i].reserve # DefaultPubkey})

MutReservesWithAllocationCount(v) == get_reserves_count(v)

get_reserves_with_allocation_count(v) ==
    Cardinality({i \in Slots :
        /\ v.vault_allocation_strategy[i].reserve # DefaultPubkey
        /\ v.vault_allocation_strategy[i].target_allocation_weight > 0
        /\ v.vault_allocation_strategy[i].token_allocation_cap > 0})

is_allocated_to_reserve(v, reserve) ==
    \E i \in Slots : v.vault_allocation_strategy[i].reserve = reserve

\* position(): the first slot holding the reserve, 0 for None
get_reserve_idx_in_allocation(v, reserve) ==
    IF is_allocated_to_reserve(v, reserve)
    THEN CHOOSE i \in Slots :
            /\ v.vault_allocation_strategy[i].reserve = reserve
            /\ \A j \in Slots : j < i => v.vault_allocation_strategy[j].reserve # reserve
    ELSE 0

\* A result of a fallible computation
Ok(val) == [err |-> "Ok", val |-> val]
Err(e) == [err |-> e, val |-> 0]

\* the holdings, pending fees included
MutAumWithPendingFees(v, invested_total) ==
    Ok(FractionFrom(v.token_available) + invested_total)

compute_aum(v, invested_total) ==
    IF FractionFrom(v.token_available) + invested_total < get_pending_fees(v)
    THEN Err("AUMBelowPendingFees")
    ELSE Ok(FractionFrom(v.token_available) + invested_total - get_pending_fees(v))

---------------------------------------------------------------------------
(* vault_operations::common: the holdings aggregator.  reserves_iter is    *)
(* the sequence of reserve accounts handed to the instruction, each        *)
(* [key, collateral_supply, liquidity, stale].                             *)

DefaultInvestedReserve ==
    [reserve |-> DefaultPubkey, liquidity_amount |-> 0, ctoken_amount |-> 0,
     target_weight |-> 0]

RECURSIVE amounts_invested_from(_, _, _, _, _)
\* the loop of amounts_invested from slot i on, k reserves consumed so far
amounts_invested_from(v, reserves_iter, i, k, acc) ==
    IF i > MAX_RESERVES
    THEN Ok([allocations |-> acc.allocations, total |-> acc.total])
    ELSE LET allocation_state == v.vault_allocation_strategy[i] IN
         IF allocation_state.reserve = DefaultPubkey
         THEN amounts_invested_from(v, reserves_iter, i + 1, k, acc)
         ELSE IF k + 1 > Len(reserves_iter)
         THEN Err("ReserveNotProvidedInTheAccounts")
         ELSE LET reserve == reserves_iter[k + 1] IN
              IF reserve.key # allocation_state.reserve
              THEN Err("ReserveAccountAndKeyMismatch")
              ELSE IF reserve.stale
              THEN Err("ReserveIsStale")
              ELSE LET ctoken_amount == allocation_state.ctoken_allocation
                       liquidity_amount ==
                           fraction_collateral_to_liquidity(
                               collateral_exchange_rate(reserve),
                               FractionFrom(ctoken_amount))
                       entry == [reserve |-> allocation_state.reserve,
                                 liquidity_amount |-> liquidity_amount,
                                 ctoken_amount |-> ctoken_amount,
                                 target_weight |->
                                     allocation_state.target_allocation_weight]
                   IN amounts_invested_from(v, reserves_iter, i + 1, k + 1,
                          [allocations |-> [acc.allocations EXCEPT ![i] = entry],
                           total |-> acc.total + liquidity_amount])

amounts_invested(v, reserves_iter) ==
    amounts_invested_from(v, reserves_iter, 1, 0,
        [allocations |-> [i \in Slots |-> DefaultInvestedReserve], total |-> 0])

\* as many tokens as a u64 holds
MutAvailableUnbounded(v) == U64_MAX

available_to_invest(v) == v.token_available

holdings(v, reserves_iter) ==
    Let([invested \in {amounts_invested(v, reserves_iter)} |->
    IF invested.err # "Ok" THEN Err(invested.err)
    ELSE Ok([available |-> available_to_invest(v),
             invested |-> invested.val,
             total_sum |-> FractionFrom(available_to_invest(v)) + invested.val.total])
    ])

\* Invested::in_reserve: the first entry of the reserve (the unwrap panics
\* when there is none)
has_in_reserve(invested, reserve) ==
    \E i \in Slots : invested.allocations[i].reserve = reserve

in_reserve(invested, reserve) ==
    invested.allocations[CHOOSE i \in Slots :
        /\ invested.allocations[i].reserve = reserve
        /\ \A j \in Slots : j < i => invested.allocations[j].reserve # reserve]

---------------------------------------------------------------------------
(* vault_operations::charge_fees *)

\* the yearly management fee, whatever the time passed
MutMgmtChargeYearly(v, seconds_passed) ==
    IF seconds_passed = 0 THEN 0
    ELSE FractionMul(get_prev_aum(v), from_bps(v.management_fee_bps))

mgmt_charge_of(v, seconds_passed) ==
    IF seconds_passed = 0 THEN 0
    ELSE LET mgmt_fee_yearly == from_bps(v.management_fee_bps)
             mgmt_fee == MulDiv(mgmt_fee_yearly, seconds_passed, SECONDS_PER_YEAR)
         IN FractionMul(get_prev_aum(v), mgmt_fee)

\* min(mgmt_charge + perf_charge, new_aum)
MutFeesUncapped(charges, new_aum) == charges

new_fees_of(charges, new_aum) == Min(charges, new_aum)

\* the charge is taken off the counter
MutTakenOff(a, b) == a - b

\* Fraction::saturating_add on a counter; the sums of these runs are far
\* below Fraction::MAX
saturating_add(a, b) == a + b

charge_fees(v, invested, timestamp) ==
    IF v.last_fee_charge_timestamp = 0
    THEN [v EXCEPT !.last_fee_charge_timestamp = timestamp]
    ELSE LET seconds_passed == SatSub(timestamp, v.last_fee_charge_timestamp)
             aum == compute_aum(v, invested.total)
             new_aum == IF aum.err = "Ok" THEN aum.val ELSE 0
             prev_aum == get_prev_aum(v)
             mgmt_charge == mgmt_charge_of(v, seconds_passed)
             earned_interest == SatSub(new_aum, prev_aum)
             perf_charge == FractionMul(from_bps(v.performance_fee_bps), earned_interest)
             new_fees == new_fees_of(mgmt_charge + perf_charge, new_aum)
         IN [v EXCEPT
                !.cumulative_mgmt_fees_sf = saturating_add(@, mgmt_charge),
                !.cumulative_perf_fees_sf = saturating_add(@, perf_charge),
                !.cumulative_earned_interest_sf = saturating_add(@, earned_interest),
                !.pending_fees_sf = @ + new_fees,
                !.prev_aum_sf = new_aum - new_fees,
                !.last_fee_charge_timestamp = timestamp]

---------------------------------------------------------------------------
(* The outcome of a core operation: the error (or "Ok"), the vault as the  *)
(* operation left it when it returned, its effects, and the intermediate   *)
(* values it computed.  A "Panic" is an abort of the program (an           *)
(* arithmetic overflow, a division by zero, an unwrap of None).            *)

NoEffects == [none |-> TRUE]

Failed(e, v) == [err |-> e, vault |-> v, eff |-> NoEffects, calc |-> NoEffects]

FailedAt(e, v, calc) == [err |-> e, vault |-> v, eff |-> NoEffects, calc |-> calc]

Panicked(v) == Failed("Panic", v)

---------------------------------------------------------------------------
(* vault_operations::common: deposit and withdraw arithmetic *)

MutSharesToMintFloorAum(holdings_aum, user_token_amount, shares_issued) ==
    IF shares_issued = 0 THEN Ok(user_token_amount)
    ELSE IF holdings_aum = 0 THEN Err("VaultAUMZero")
    ELSE IF to_floor(holdings_aum) = 0 THEN Err("Panic")
    ELSE IF (shares_issued * user_token_amount) \div to_floor(holdings_aum) > U64_MAX
    THEN Err("Panic")
    ELSE Ok(to_floor(full_mul_int_ratio(FractionFrom(shares_issued),
                                        user_token_amount,
                                        to_floor(holdings_aum))))

get_shares_to_mint(holdings_aum, user_token_amount, shares_issued) ==
    IF shares_issued = 0 THEN Ok(user_token_amount)
    ELSE IF holdings_aum = 0 THEN Err("VaultAUMZero")
    \* the result does not fit the u64
    ELSE IF (shares_issued * user_token_amount) \div to_ceil(holdings_aum) > U64_MAX
    THEN Err("Panic")
    ELSE Ok(to_floor(full_mul_int_ratio(FractionFrom(shares_issued),
                                        user_token_amount,
                                        to_ceil(holdings_aum))))

MutAmountToDepositFloor(vault_total_shares, vault_total_holdings, shares_to_mint) ==
    IF vault_total_shares = 0 THEN shares_to_mint
    ELSE to_floor(full_mul_int_ratio(vault_total_holdings, shares_to_mint,
                                     vault_total_shares))

compute_amount_to_deposit_from_shares_to_mint(vault_total_shares, vault_total_holdings, shares_to_mint) ==
    IF vault_total_shares = 0 THEN shares_to_mint
    ELSE to_ceil(full_mul_int_ratio_ceil(vault_total_holdings, shares_to_mint,
                                         vault_total_shares))

\* a token more than the shares are worth
MutTotalReceivedAndOne(shares_issued, vault_total_holdings, shares_to_withdraw) ==
    to_floor(full_mul_int_ratio(vault_total_holdings, shares_to_withdraw, shares_issued)) + 1

compute_user_total_received_on_withdraw(shares_issued, vault_total_holdings, shares_to_withdraw) ==
    IF shares_issued = shares_to_withdraw
    THEN to_floor(vault_total_holdings)
    ELSE to_floor(full_mul_int_ratio(vault_total_holdings, shares_to_withdraw,
                                     shares_issued))

MutSharesToBurnFloor(amount_to_send_to_user, total_supply, total_sum, number_of_shares) ==
    Min(to_floor(full_mul_int_ratio(amount_to_send_to_user, total_supply,
                                    to_floor(total_sum))),
        number_of_shares)

\* total_sum.to_floor() is the denominator: the division panics when it is 0
calculate_shares_to_burn(amount_to_send_to_user, total_supply, total_sum, number_of_shares) ==
    Min(to_ceil(full_mul_int_ratio(amount_to_send_to_user, total_supply,
                                   to_floor(total_sum))),
        number_of_shares)

\* one token of every credit to the available balance is dropped
MutDepositShort(v, amount) == [v EXCEPT !.token_available = @ + SatSub(amount, 1)]

deposit_into_vault(v, amount) == [v EXCEPT !.token_available = @ + amount]

withdraw_from_vault(v, amount) == [v EXCEPT !.token_available = @ - amount]

\* the ledger burns every share there is
MutBurnAllShares(v, amt) == [v EXCEPT !.shares_issued = 0]

burn_shares(v, amt) == [v EXCEPT !.shares_issued = @ - amt]

mint_shares(v, amt) == [v EXCEPT !.shares_issued = @ + amt]

\* prev_aum left as it was
MutKeepPrevAum(v, aum) == v

update_prev_aum(v, aum) == [v EXCEPT !.prev_aum_sf = aum]

\* pending fees left as they were
MutKeepPendingFees(v, fees) == v

update_pending_fees(v, fees) == [v EXCEPT !.pending_fees_sf = fees]

MutCrankFundsUnrecorded(v, amount) == v

deposit_crank_funds(v, amount) == [v EXCEPT !.available_crank_funds = @ + amount]

withdraw_from_accounting(v, available_to_send_to_user, shares_to_burn) ==
    burn_shares(withdraw_from_vault(v, available_to_send_to_user), shares_to_burn)

\* the reserve is in the table wherever this is used
deposit_into_vault_allocation(v, ctokens, reserve) ==
    [v EXCEPT !.vault_allocation_strategy[get_reserve_idx_in_allocation(v, reserve)]
                    .ctoken_allocation = @ + ctokens]

\* the ctokens redeemed stay in the entry
MutAllocationKept(v, ctokens, reserve) == v

withdraw_from_vault_allocation(v, ctokens, reserve) ==
    [v EXCEPT !.vault_allocation_strategy[get_reserve_idx_in_allocation(v, reserve)]
                    .ctoken_allocation = @ - ctokens]

---------------------------------------------------------------------------
(* vault_operations::deposit *)

MutDepositBelowMin(user_tokens_to_deposit, min_deposit_amount) ==
    user_tokens_to_deposit <= min_deposit_amount

deposit_below_minimum(user_tokens_to_deposit, min_deposit_amount) ==
    user_tokens_to_deposit < min_deposit_amount

MutDepositEffects(v, current_vault_aum, shares_to_mint, user_tokens_to_deposit, crank_funds_to_deposit) ==
    deposit_crank_funds(
        update_prev_aum(
            mint_shares(deposit_into_vault(v, user_tokens_to_deposit), shares_to_mint),
            current_vault_aum),
        crank_funds_to_deposit)

\* EFFECTS: the last things deposit updates
deposit_effects(v, current_vault_aum, shares_to_mint, user_tokens_to_deposit, crank_funds_to_deposit) ==
    deposit_crank_funds(
        update_prev_aum(
            mint_shares(deposit_into_vault(v, user_tokens_to_deposit), shares_to_mint),
            current_vault_aum + FractionFrom(user_tokens_to_deposit)),
        crank_funds_to_deposit)

deposit(v, reserves_iter, max_amount, current_slot, current_timestamp) ==
    Let([num_reserve \in {get_reserves_with_allocation_count(v)} |->
    Let([crank_funds_to_deposit \in {num_reserve * v.crank_fund_fee_per_reserve} |->
    IF max_amount < crank_funds_to_deposit THEN Panicked(v) ELSE
    Let([max_user_tokens_to_deposit \in {max_amount - crank_funds_to_deposit} |->
    Let([h \in {holdings(v, reserves_iter)} |->
    IF h.err # "Ok" THEN Failed(h.err, v) ELSE
    Let([v1 \in {charge_fees(v, h.val.invested, current_timestamp)} |->
    Let([aum \in {compute_aum(v1, h.val.invested.total)} |->
    IF aum.err # "Ok" THEN Failed(aum.err, v1) ELSE
    Let([current_vault_aum \in {aum.val} |->
    Let([minted \in {get_shares_to_mint(current_vault_aum, max_user_tokens_to_deposit,
                                     v1.shares_issued)} |->
    IF minted.err # "Ok" THEN Failed(minted.err, v1) ELSE
    Let([shares_to_mint \in {minted.val} |->
    Let([user_tokens_to_deposit \in {
            compute_amount_to_deposit_from_shares_to_mint(
                v1.shares_issued, current_vault_aum, shares_to_mint)} |->
    Let([calc \in {[current_vault_aum |-> current_vault_aum,
                 max_user_tokens_to_deposit |-> max_user_tokens_to_deposit,
                 shares_issued |-> v1.shares_issued,
                 shares_to_mint |-> shares_to_mint,
                 user_tokens_to_deposit |-> user_tokens_to_deposit]} |->
    IF deposit_below_minimum(user_tokens_to_deposit, v1.min_deposit_amount)
    THEN FailedAt("DepositAmountBelowMinimum", v1, calc)
    ELSE IF shares_to_mint = 0
    THEN FailedAt("DepositAmountsZeroShares", v1, calc)
    \* token_available += .., shares_issued += .. overflow
    ELSE IF \/ v1.token_available + user_tokens_to_deposit > U64_MAX
            \/ v1.shares_issued + shares_to_mint > U64_MAX
    THEN Panicked(v1)
    ELSE [err |-> "Ok",
          vault |-> deposit_effects(v1, current_vault_aum, shares_to_mint,
                                    user_tokens_to_deposit, crank_funds_to_deposit),
          eff |-> [shares_to_mint |-> shares_to_mint,
                   token_to_deposit |-> user_tokens_to_deposit,
                   crank_funds_to_deposit |-> crank_funds_to_deposit],
          calc |-> calc]
    ])])])])])])])])])])])

---------------------------------------------------------------------------
(* vault_operations::withdraw.  reserve_address_to_withdraw_from is a      *)
(* reserve key or NoReserve (None); reserve_state_to_withdraw_from the     *)
(* reserve account of that key; reserve_ctokens_owned the ctokens the      *)
(* handler read from the allocation.                                       *)

NoReserve == -1

\* what withdraw draws from the reserve:
\* <<invested_liquidity_to_send_to_user_f, invested_liquidity_to_disinvest,
\*   invested_to_disinvest_ctokens, liquidity_rounding_error>>
withdraw_from_reserve_amounts(invested_in_reserve, total_for_user, available_to_send_to_user, exchange_rate, reserve_ctokens_owned) ==
    Let([invested_liquidity_to_send_to_user_f \in {
            Min(invested_in_reserve.liquidity_amount,
                FractionFrom(total_for_user - available_to_send_to_user))} |->
    IF invested_liquidity_to_send_to_user_f = 0 THEN <<0, 0, 0, 0>> ELSE
    Let([wanted_ctokens \in {
            to_ceil(fraction_liquidity_to_collateral_ceil(
                exchange_rate,
                FractionFrom(to_floor(invested_liquidity_to_send_to_user_f))))} |->
    Let([max_ctokens_to_disinvest \in {reserve_ctokens_owned} |->
    Let([invested_to_disinvest_ctokens \in {Min(wanted_ctokens, max_ctokens_to_disinvest)} |->
    Let([invested_liquidity_to_disinvest_f \in {
            fraction_collateral_to_liquidity(
                exchange_rate, FractionFrom(invested_to_disinvest_ctokens))} |->
    Let([invested_liquidity_to_disinvest \in {to_floor(invested_liquidity_to_disinvest_f)} |->
    Let([liquidity_rounding_error \in {
            IF /\ frac(invested_liquidity_to_disinvest_f) > 0
               /\ frac(invested_liquidity_to_disinvest_f)
                      > frac(invested_liquidity_to_send_to_user_f)
            THEN 1 ELSE 0} |->
       <<invested_liquidity_to_send_to_user_f, invested_liquidity_to_disinvest,
         invested_to_disinvest_ctokens, liquidity_rounding_error>>
    ])])])])])])])

MutWithdrawBelowMin(amount, min_withdraw_amount) == amount < min_withdraw_amount

withdraw_below_minimum(amount, min_withdraw_amount) == amount <= min_withdraw_amount

MutAvailableToSend(available, total_for_user) == available

available_to_send(available, total_for_user) == Min(available, total_for_user)

withdraw(v, reserve_address_to_withdraw_from, reserve_state_to_withdraw_from, reserves_iter, current_timestamp, current_slot, number_of_shares, reserve_ctokens_owned) ==
    IF number_of_shares = 0 THEN Failed("CannotWithdrawZeroShares", v) ELSE
    Let([h \in {holdings(v, reserves_iter)} |->
    IF h.err # "Ok" THEN Failed(h.err, v) ELSE
    Let([v1 \in {charge_fees(v, h.val.invested, current_timestamp)} |->
    Let([aum \in {compute_aum(v1, h.val.invested.total)} |->
    IF aum.err # "Ok" THEN Failed(aum.err, v1) ELSE
    Let([current_vault_aum \in {aum.val} |->
    IF current_vault_aum = 0 THEN Failed("VaultAUMZero", v1) ELSE
    Let([total_shares_supply \in {v1.shares_issued} |->
    Let([total_for_user \in {
            compute_user_total_received_on_withdraw(
                total_shares_supply, current_vault_aum, number_of_shares)} |->
    Let([available_to_send_to_user \in {available_to_send(h.val.available, total_for_user)} |->
    Let([named \in {reserve_address_to_withdraw_from # NoReserve} |->
    \* holdings.invested.in_reserve(reserve_address) unwraps
    IF named /\ ~has_in_reserve(h.val.invested, reserve_address_to_withdraw_from)
    THEN Panicked(v1) ELSE
    Let([drawn \in {
            IF named
            THEN withdraw_from_reserve_amounts(
                     in_reserve(h.val.invested, reserve_address_to_withdraw_from),
                     total_for_user, available_to_send_to_user,
                     collateral_exchange_rate(reserve_state_to_withdraw_from),
                     reserve_ctokens_owned)
            ELSE <<0, 0, 0, 0>>} |->
    Let([invested_liquidity_to_send_to_user_f \in {drawn[1]} |->
    Let([invested_liquidity_to_disinvest \in {drawn[2]} |->
    Let([invested_to_disinvest_ctokens \in {drawn[3]} |->
    Let([liquidity_rounding_error \in {drawn[4]} |->
    Let([invested_liquidity_to_send_to_user \in {to_floor(invested_liquidity_to_send_to_user_f)} |->
    Let([theoretical_amount_to_send_to_user_f \in {
            FractionFrom(available_to_send_to_user) + invested_liquidity_to_send_to_user_f} |->
    IF invested_liquidity_to_send_to_user < liquidity_rounding_error
    THEN Panicked(v1) ELSE
    Let([actual_invested_liquidity_to_send_to_user \in {
            invested_liquidity_to_send_to_user - liquidity_rounding_error} |->
    \* calculate_shares_to_burn divides by total_sum.to_floor()
    IF to_floor(current_vault_aum) = 0 THEN Panicked(v1) ELSE
    Let([shares_to_burn \in {
            calculate_shares_to_burn(theoretical_amount_to_send_to_user_f,
                                     total_shares_supply, current_vault_aum,
                                     number_of_shares)} |->
    IF invested_liquidity_to_disinvest < actual_invested_liquidity_to_send_to_user
    THEN Panicked(v1) ELSE
    Let([disinvested_amount_left_in_vault \in {
            invested_liquidity_to_disinvest - actual_invested_liquidity_to_send_to_user} |->
    Let([calc \in {[current_vault_aum |-> current_vault_aum,
                 total_shares_supply |-> total_shares_supply,
                 total_for_user |-> total_for_user,
                 available |-> h.val.available,
                 available_to_send_to_user |-> available_to_send_to_user,
                 invested_liquidity_to_send_to_user |-> invested_liquidity_to_send_to_user,
                 theoretical_amount_to_send_to_user_f |->
                     theoretical_amount_to_send_to_user_f,
                 liquidity_rounding_error |-> liquidity_rounding_error,
                 shares_to_burn |-> shares_to_burn]} |->
    IF shares_to_burn = 0
    THEN FailedAt("WithdrawResultsInZeroShares", v1, calc)
    ELSE IF withdraw_below_minimum(
                available_to_send_to_user + invested_liquidity_to_send_to_user,
                v1.min_withdraw_amount)
    THEN FailedAt("WithdrawAmountBelowMinimum", v1, calc)
    ELSE IF named /\ ~is_allocated_to_reserve(v1, reserve_address_to_withdraw_from)
    THEN FailedAt("ReserveNotPartOfAllocations", v1, calc)
    ELSE
    \* EFFECTS: Accounting
    Let([v2 \in {withdraw_from_accounting(v1, available_to_send_to_user, shares_to_burn)} |->
    Let([v3 \in {deposit_into_vault(v2, disinvested_amount_left_in_vault)} |->
    Let([v4 \in {IF named
              THEN withdraw_from_vault_allocation(
                       v3, invested_to_disinvest_ctokens,
                       reserve_address_to_withdraw_from)
              ELSE v3} |->
    Let([v5 \in {update_prev_aum(
                  v4, current_vault_aum - theoretical_amount_to_send_to_user_f)} |->
       [err |-> "Ok",
        vault |-> v5,
        eff |-> [shares_to_burn |-> shares_to_burn,
                 available_to_send_to_user |-> available_to_send_to_user,
                 invested_to_disinvest_ctokens |-> invested_to_disinvest_ctokens,
                 invested_liquidity_to_send_to_user |->
                     actual_invested_liquidity_to_send_to_user,
                 invested_liquidity_to_disinvest |-> invested_liquidity_to_disinvest],
        calc |-> calc]
    ])])])])])])])])])])])])])])])])])])])])])])])

---------------------------------------------------------------------------
(* The instructions.  An instruction that fails leaves every account as it *)
(* was (the runtime commits nothing); `last` keeps what the core operation *)
(* had done to the vault when it returned.                                 *)

NoInstruction ==
    [seq |-> 0, op |-> "none", err |-> "Ok", args |-> NoEffects, eff |-> NoEffects,
     calc |-> NoEffects, core_vault |-> NoEffects, pre_vault |-> NoEffects,
     pre_balances |-> NoEffects]

\* The reserve account of key k as the instruction reads it
ReserveAccount(k) ==
    [key |-> k,
     collateral_supply |-> reserves[k].collateral_supply,
     liquidity |-> reserves[k].liquidity,
     stale |-> reserves[k].stale]

RECURSIVE LiveReservesFrom(_, _)
LiveReservesFrom(v, i) ==
    IF i > MAX_RESERVES THEN <<>>
    ELSE IF v.vault_allocation_strategy[i].reserve = DefaultPubkey
    THEN LiveReservesFrom(v, i + 1)
    ELSE <<v.vault_allocation_strategy[i].reserve>> \o LiveReservesFrom(v, i + 1)

\* The remaining accounts a well-formed instruction passes: the reserves of
\* the live allocations, in table order
LiveReserves(v) == LiveReservesFrom(v, 1)

\* cpi_refresh_reserves: klend refreshes each reserve passed, after which it
\* is not stale
RefreshedAccounts(keys) ==
    [i \in 1..Len(keys) |-> [ReserveAccount(keys[i]) EXCEPT !.stale = FALSE]]

\* the accounts as they are, for a call of the core operation alone
PlainAccounts(keys) == [i \in 1..Len(keys) |-> ReserveAccount(keys[i])]

\* `last` after an instruction: its number in the run, what it was given,
\* how it ended, and the accounts as it found them
Record(op, args, r) ==
    [seq |-> last.seq + 1, op |-> op, err |-> r.err, args |-> args, eff |-> r.eff,
     calc |-> r.calc, core_vault |-> r.vault, pre_vault |-> vault,
     pre_balances |-> balances]

\* What a handler comes to: the outcome r of the core operation, with the
\* error of the handler's own steps if one failed, and the token balances b
\* after its transfers
Outcome(r, b) ==
    [err |-> r.err, vault |-> r.vault, eff |-> r.eff, calc |-> r.calc,
     balances |-> IF r.err = "Ok" THEN b ELSE balances]

\* The instruction as a step: the accounts change when it succeeds only
Commit(op, args, out) ==
    /\ last' = Record(op, args, out)
    /\ vault' = IF out.err = "Ok" THEN out.vault ELSE vault
    /\ balances' = out.balances
    /\ UNCHANGED <<reserves, clock>>

\* handler_deposit::process.  keys are the remaining accounts; refreshed
\* tells whether the reserves are refreshed first, as the handler does.
deposit_process(keys, refreshed, max_amount) ==
    Let([accounts \in {IF refreshed THEN RefreshedAccounts(keys) ELSE PlainAccounts(keys)} |->
    Let([r0 \in {IF max_amount = 0
              THEN Failed("DepositAmountsZero", vault)
              ELSE deposit(vault, accounts, max_amount, clock.slot, clock.unix_timestamp)} |->
    Let([transfer \in {IF r0.err = "Ok"
                    THEN r0.eff.token_to_deposit + r0.eff.crank_funds_to_deposit
                    ELSE 0} |->
    \* transfer_to_vault fails when the user's account holds less
    Let([r \in {IF r0.err = "Ok" /\ balances.user_token_ata < transfer
             THEN Failed("InsufficientFunds", r0.vault)
             ELSE r0} |->
       Outcome(r, [balances EXCEPT
                      !.user_token_ata = @ - transfer,
                      !.token_vault = @ + transfer,
                      !.user_shares_ata = @ + r.eff.shares_to_mint])
    ])])])])

DepositIx(keys, refreshed, max_amount) ==
    Commit("deposit", [max_amount |-> max_amount, keys |-> keys],
           deposit_process(keys, refreshed, max_amount))

---------------------------------------------------------------------------
(* The states a core operation can be called in.  The ledger of a live     *)
(* vault is any combination of idle tokens, shares, pending fees and       *)
(* holdings in reserves whose exchange rates move; the sets below span     *)
(* share prices below, at and above 1, whole and fractional AUM, an AUM of *)
(* zero and pending fees above the holdings.                               *)

\* A year before the operation, the operation's time, and its slot
CoreNow == SECONDS_PER_YEAR + 1000
CoreSlot == 10

LiveAllocation(reserve, ctokens, weight, cap) ==
    [DefaultAllocation EXCEPT
        !.reserve = reserve, !.ctoken_vault = reserve,
        !.target_allocation_weight = weight, !.token_allocation_cap = cap,
        !.ctoken_allocation = ctokens]

\* Allocation tables: empty, one reserve (after a removal too), two reserves
CoreTables ==
    {[i \in Slots |-> ZeroedAllocation]}
    \cup {[i \in Slots |-> IF i = 1 THEN LiveAllocation(1, a[1], a[2], a[3])
                           ELSE ZeroedAllocation] :
            a \in {<<300, 1, 100>>, <<0, 1, 100>>, <<300, 0, 100>>, <<300, 1, 0>>}}
    \cup {[i \in Slots |-> IF i = 1 THEN DefaultAllocation
                           ELSE IF i = 2 THEN LiveAllocation(2, 200, 1, 100)
                           ELSE ZeroedAllocation]}
    \cup {[i \in Slots |-> IF i = 1 THEN LiveAllocation(1, 300, 1, 100)
                           ELSE IF i = 2 THEN LiveAllocation(2, 200, 1, 100)
                           ELSE ZeroedAllocation]}

\* <<last_fee_charge_timestamp, management_fee_bps, performance_fee_bps, prev_aum>>
CoreFees ==
    {<<0, 0, 0, 0>>,
     <<CoreNow, 1000, 5000, FractionFrom(1000)>>,
     <<CoreNow - SECONDS_PER_YEAR, 1000, 5000, FractionFrom(1000)>>}

CorePendingFees == {0, Scale \div 2, FractionFrom(1500)}

CoreVault(shares, available, pending, table, fees, crank_fee, min_deposit, min_withdraw) ==
    [ZeroedVault EXCEPT
        !.shares_issued = shares,
        !.token_available = available,
        !.pending_fees_sf = pending,
        !.vault_allocation_strategy = table,
        !.last_fee_charge_timestamp = fees[1],
        !.management_fee_bps = fees[2],
        !.performance_fee_bps = fees[3],
        !.prev_aum_sf = fees[4],
        !.crank_fund_fee_per_reserve = crank_fee,
        !.min_deposit_amount = min_deposit,
        !.min_withdraw_amount = min_withdraw]

\* Reserve 1 trades 3 ctokens for 4 tokens, reserve 2 one for one
CoreReserves(stale1) ==
    [k \in ReserveKeys |->
        IF k = 1
        THEN [collateral_supply |-> 3, liquidity |-> FractionFrom(4), stale |-> stale1]
        ELSE [collateral_supply |-> 1, liquidity |-> FractionFrom(1), stale |-> FALSE]]

CoreBalances(v) ==
    [token_vault |-> v.token_available + v.available_crank_funds,
     user_token_ata |-> 2000,
     user_shares_ata |-> v.shares_issued,
     admin_token_ata |-> 0,
     payer_token_ata |-> 10,
     ctoken_vault |-> [k \in ReserveKeys |->
        IF is_allocated_to_reserve(v, k)
        THEN v.vault_allocation_strategy[get_reserve_idx_in_allocation(v, k)]
                .ctoken_allocation
        ELSE 0],
     reserve_liquidity_supply |-> [k \in ReserveKeys |-> 1000]]

\* The remaining accounts a caller may pass: the reserves of the table in
\* its order, none, or the reserves in another order
KeyLists(v) == {LiveReserves(v), <<>>, <<2, 1>>}

---------------------------------------------------------------------------
(* SpecDeposit: one call of deposit in each of these states *)

DepositAmounts == {0, 1, 2, 500, 1000}

InitDeposit ==
    /\ \E shares \in {0, 1000, 1500}, available \in {0, 1000, 1500, 2500},
          pending \in CorePendingFees, table \in CoreTables, fees \in CoreFees,
          crank_fee \in {0, 1}, min_deposit \in {0, 2, 1000} :
          vault = CoreVault(shares, available, pending, table, fees, crank_fee,
                            min_deposit, 0)
    /\ \E stale1 \in BOOLEAN : reserves = CoreReserves(stale1)
    /\ balances = CoreBalances(vault)
    /\ clock = [slot |-> CoreSlot, unix_timestamp |-> CoreNow]
    /\ last = NoInstruction

NextDeposit ==
    /\ last.op = "none"
    /\ \E keys \in KeyLists(vault), max_amount \in DepositAmounts :
          DepositIx(keys, FALSE, max_amount)

SpecDeposit == InitDeposit /\ [][NextDeposit]_vars

---------------------------------------------------------------------------
(* Properties of deposit *)

\* a * b >= c * d, on the products written out in three limbs
Limb == 2 ^ 15

WideProduct(a, b) ==
    LET p0 == (a % Limb) * (b % Limb)
        p1 == (a \div Limb) * (b % Limb) + (a % Limb) * (b \div Limb)
                  + (p0 \div Limb)
        p2 == (a \div Limb) * (b \div Limb) + (p1 \div Limb)
    IN <<p2, p1 % Limb, p0 % Limb>>

GeqProduct(a, b, c, d) ==
    LET x == WideProduct(a, b)
        y == WideProduct(c, d)
    IN \/ x[1] > y[1]
       \/ x[1] = y[1] /\ x[2] > y[2]
       \/ x[1] = y[1] /\ x[2] = y[2] /\ x[3] >= y[3]

\* the last instruction was a deposit that went through
DepositOk == last.op = "deposit" /\ last.err = "Ok"

\* the last instruction was a deposit that got as far as the amount checks
DepositComputed == last.op = "deposit" /\ last.calc # NoEffects

\* live reserves with a positive weight and a positive cap, counted on the table
CrankedReserves(v) ==
    {i \in Slots :
        /\ v.vault_allocation_strategy[i].reserve # DefaultPubkey
        /\ v.vault_allocation_strategy[i].target_allocation_weight > 0
        /\ v.vault_allocation_strategy[i].token_allocation_cap > 0}

\* C3: a deposit into a vault with shares_issued > 0 and post-accrual AUM > 0
\* mints floor(shares_issued * tendered / ceil(AUM)) shares, tendered being
\* max_amount - crank_funds_to_deposit, and charges
\* ceil(AUM * shares_to_mint / shares_issued) tokens; with shares_issued = 1000,
\* AUM = 1000 and 500 tendered that is 500 shares for 500 tokens.
C3_DepositSharesAndTokens ==
    (DepositOk /\ last.calc.shares_issued > 0 /\ last.calc.current_vault_aum > 0) =>
        LET aum == last.calc.current_vault_aum
            shares_issued == last.calc.shares_issued
            tendered == last.args.max_amount - last.eff.crank_funds_to_deposit
            ceil_aum == to_ceil(aum)
            s == last.eff.shares_to_mint
            t == last.eff.token_to_deposit
        IN /\ s * ceil_aum <= shares_issued * tendered
           /\ (s + 1) * ceil_aum > shares_issued * tendered
           /\ GeqProduct(FractionFrom(t), shares_issued, aum, s)
           /\ ~GeqProduct(FractionFrom(t - 1), shares_issued, aum, s)
           /\ (shares_issued = 1000 /\ aum = FractionFrom(1000) /\ tendered = 500)
                  => (s = 500 /\ t = 500)

C3_Witness ==
    /\ DepositOk
    /\ last.calc.shares_issued = 1000
    /\ last.calc.current_vault_aum = FractionFrom(1000)
    /\ last.args.max_amount - last.eff.crank_funds_to_deposit = 500
    /\ last.eff.shares_to_mint = 500
    /\ last.eff.token_to_deposit = 500

\* C4: a deposit into a vault with shares_issued = 0 mints one share per token:
\* shares_to_mint = token_to_deposit = max_amount - crank_funds_to_deposit, the
\* crank funds being crank_fund_fee_per_reserve for each live reserve with a
\* positive weight and a positive cap; an empty vault without reserves that
\* takes 1000 ends with 1000 shares issued and 1000 tokens available.
C4_FirstDepositOneToOne ==
    (DepositOk /\ last.pre_vault.shares_issued = 0) =>
        LET crank == last.pre_vault.crank_fund_fee_per_reserve
                        * Cardinality(CrankedReserves(last.pre_vault))
        IN /\ last.eff.crank_funds_to_deposit = crank
           /\ last.eff.shares_to_mint = last.args.max_amount - crank
           /\ last.eff.token_to_deposit = last.args.max_amount - crank
           /\ (/\ last.pre_vault.token_available = 0
               /\ get_reserves_count(last.pre_vault) = 0
               /\ last.args.max_amount = 1000)
                  => /\ last.eff.shares_to_mint = 1000
                     /\ last.eff.token_to_deposit = 1000
                     /\ vault.shares_issued = 1000
                     /\ vault.token_available = 1000

C4_Witness ==
    /\ DepositOk
    /\ last.pre_vault.shares_issued = 0
    /\ last.pre_vault.token_available = 0
    /\ get_reserves_count(last.pre_vault) = 0
    /\ last.args.max_amount = 1000
    /\ vault.shares_issued = 1000
    /\ vault.token_available = 1000

\* C5: a successful deposit never charges more than was tendered:
\* token_to_deposit <= max_amount - crank_funds_to_deposit, so that
\* token_to_deposit + crank_funds_to_deposit <= max_amount, whatever the shares
\* issued, the AUM (fractional too) and max_amount.
C5_DepositWithinTendered ==
    DepositOk =>
        /\ last.eff.token_to_deposit
              <= last.args.max_amount - last.eff.crank_funds_to_deposit
        /\ last.eff.token_to_deposit + last.eff.crank_funds_to_deposit
              <= last.args.max_amount

\* a deposit at a fractional AUM that charges less than was tendered
C5_Witness ==
    /\ DepositOk
    /\ last.calc.shares_issued > 0
    /\ frac(last.calc.current_vault_aum) # 0
    /\ last.eff.crank_funds_to_deposit > 0
    /\ last.eff.token_to_deposit
          < last.args.max_amount - last.eff.crank_funds_to_deposit

\* C6 as the specification words it: rejected with DepositAmountBelowMinimum
\* when max_amount - crank_funds_to_deposit is below min_deposit_amount, not
\* rejected with it otherwise, and rejected with DepositAmountsZeroShares
\* when no share would be minted.
C6_AsWorded ==
    DepositComputed =>
        LET tendered == last.calc.max_user_tokens_to_deposit
            min_deposit == last.pre_vault.min_deposit_amount
        IN /\ tendered < min_deposit => last.err = "DepositAmountBelowMinimum"
           /\ tendered >= min_deposit => last.err # "DepositAmountBelowMinimum"
           /\ (last.calc.shares_to_mint = 0 /\ tendered >= min_deposit)
                  => last.err = "DepositAmountsZeroShares"

\* C6: deposit is rejected with DepositAmountBelowMinimum exactly when the
\* amount it would charge, ceil(AUM * shares_to_mint / shares_issued) (the
\* tendered amount itself when no shares are issued), is below
\* min_deposit_amount: always when max_amount - crank_funds_to_deposit is
\* below the minimum, and also when rounding takes the charge under a minimum
\* the tendered amount meets.  It is rejected with DepositAmountsZeroShares
\* exactly when shares_to_mint is zero and the charge is not below the
\* minimum, that is when min_deposit_amount is zero.
C6_DepositRejections ==
    DepositComputed =>
        LET tendered == last.calc.max_user_tokens_to_deposit
            charged == last.calc.user_tokens_to_deposit
            min_deposit == last.pre_vault.min_deposit_amount
        IN /\ last.err = "DepositAmountBelowMinimum" <=> charged < min_deposit
           /\ tendered < min_deposit => last.err = "DepositAmountBelowMinimum"
           /\ last.err = "DepositAmountsZeroShares"
                  <=> (last.calc.shares_to_mint = 0 /\ min_deposit = 0)
           /\ last.err = "Ok"
                  <=> (last.calc.shares_to_mint > 0 /\ charged >= min_deposit)

\* a deposit that tenders the minimum and is rejected as below it
C6_Witness ==
    /\ DepositComputed
    /\ last.calc.max_user_tokens_to_deposit >= last.pre_vault.min_deposit_amount
    /\ last.calc.shares_to_mint > 0
    /\ last.err = "DepositAmountBelowMinimum"

\* the fields of the vault that hold its configuration and identity
ConfigFields(v) ==
    <<v.vault_admin_authority, v.pending_admin, v.allocation_admin,
      v.unallocated_weight, v.unallocated_tokens_cap, v.performance_fee_bps,
      v.management_fee_bps, v.min_deposit_amount, v.min_withdraw_amount,
      v.min_invest_amount, v.min_invest_delay_slots,
      v.crank_fund_fee_per_reserve, v.creation_timestamp>>

\* C7: a successful deposit adds token_to_deposit to token_available,
\* shares_to_mint to shares_issued and crank_funds_to_deposit to
\* available_crank_funds, sets prev_aum to the post-accrual AUM plus
\* token_to_deposit, and leaves the allocation table and the configuration
\* as they were; the user's token account drops by token_to_deposit +
\* crank_funds_to_deposit and their share account rises by shares_to_mint.
C7_DepositFrame ==
    DepositOk =>
        /\ vault.token_available
              = last.pre_vault.token_available + last.eff.token_to_deposit
        /\ vault.shares_issued
              = last.pre_vault.shares_issued + last.eff.shares_to_mint
        /\ vault.available_crank_funds
              = last.pre_vault.available_crank_funds + last.eff.crank_funds_to_deposit
        /\ vault.prev_aum_sf
              = last.calc.current_vault_aum + FractionFrom(last.eff.token_to_deposit)
        /\ vault.vault_allocation_strategy = last.pre_vault.vault_allocation_strategy
        /\ ConfigFields(vault) = ConfigFields(last.pre_vault)
        /\ balances.user_token_ata
              = last.pre_balances.user_token_ata
                    - (last.eff.token_to_deposit + last.eff.crank_funds_to_deposit)
        /\ balances.user_shares_ata
              = last.pre_balances.user_shares_ata + last.eff.shares_to_mint

\* a deposit after fees accrued, into a vault with a reserve, paying crank funds
C7_Witness ==
    /\ DepositOk
    /\ last.eff.crank_funds_to_deposit > 0
    /\ last.eff.token_to_deposit > 0
    /\ last.pre_vault.pending_fees_sf # vault.pending_fees_sf
    /\ get_reserves_count(last.pre_vault) > 0

---------------------------------------------------------------------------
(* handler_withdraw::withdraw_utils::withdraw *)

\* klend redeems ctokens for the whole tokens they are worth
redeem_reserve_liquidity(k, ctokens) ==
    to_floor(fraction_collateral_to_liquidity(
                 collateral_exchange_rate(ReserveAccount(k)), FractionFrom(ctokens)))

\* the balances the handler caches: of the reserve named, or 0 for none
VaultAndUserBalances(b, reserve) ==
    [reserve_supply_liquidity_balance |->
         IF reserve = NoReserve THEN 0 ELSE b.reserve_liquidity_supply[reserve],
     vault_token_balance |-> b.token_vault,
     vault_ctoken_balance |->
         IF reserve = NoReserve THEN 0 ELSE b.ctoken_vault[reserve],
     user_token_balance |-> b.user_token_ata,
     user_shares_balance |-> b.user_shares_ata]

\* the checks without the comparison of the shares burned
MutWithdrawChecksNoShares(amounts_before, amounts_after, withdraw_effects) ==
    IF \/ amounts_before.vault_ctoken_balance < amounts_after.vault_ctoken_balance
       \/ amounts_before.user_shares_balance < amounts_after.user_shares_balance
    THEN "Panic" ELSE
    LET token_vault_diff ==
            amounts_before.vault_token_balance - amounts_after.vault_token_balance
        ctoken_vault_decrease ==
            amounts_before.vault_ctoken_balance - amounts_after.vault_ctoken_balance
        user_ata_increase ==
            amounts_after.user_token_balance - amounts_before.user_token_balance
        user_shares_diff ==
            amounts_before.user_shares_balance - amounts_after.user_shares_balance
        reserve_supply_liquidity_diff ==
            amounts_before.reserve_supply_liquidity_balance
                - amounts_after.reserve_supply_liquidity_balance
        total_amount_sent_to_user ==
            withdraw_effects.available_to_send_to_user
                + withdraw_effects.invested_liquidity_to_send_to_user
    IN IF total_amount_sent_to_user # reserve_supply_liquidity_diff + token_vault_diff
       THEN "AmountToWithdrawDoesNotMatch"
       ELSE IF ctoken_vault_decrease # withdraw_effects.invested_to_disinvest_ctokens
       THEN "LiquidityToWithdrawDoesNotMatch"
       ELSE IF user_ata_increase # total_amount_sent_to_user
       THEN "UserReceivedAmountDoesNotMatch"
       ELSE IF reserve_supply_liquidity_diff
                   # withdraw_effects.invested_liquidity_to_disinvest
       THEN "DisinvestedLiquidityAmountDoesNotMatch"
       ELSE "Ok"

\* vault_checks::post_transfer_withdraw_balance_checks: "Ok" or the error
post_transfer_withdraw_balance_checks(amounts_before, amounts_after, withdraw_effects) ==
    IF \/ amounts_before.vault_ctoken_balance < amounts_after.vault_ctoken_balance
       \/ amounts_before.user_shares_balance < amounts_after.user_shares_balance
    THEN "Panic" ELSE
    LET token_vault_diff ==
            amounts_before.vault_token_balance - amounts_after.vault_token_balance
        ctoken_vault_decrease ==
            amounts_before.vault_ctoken_balance - amounts_after.vault_ctoken_balance
        user_ata_increase ==
            amounts_after.user_token_balance - amounts_before.user_token_balance
        user_shares_diff ==
            amounts_before.user_shares_balance - amounts_after.user_shares_balance
        reserve_supply_liquidity_diff ==
            amounts_before.reserve_supply_liquidity_balance
                - amounts_after.reserve_supply_liquidity_balance
        total_amount_sent_to_user ==
            withdraw_effects.available_to_send_to_user
                + withdraw_effects.invested_liquidity_to_send_to_user
    IN IF total_amount_sent_to_user # reserve_supply_liquidity_diff + token_vault_diff
       THEN "AmountToWithdrawDoesNotMatch"
       ELSE IF ctoken_vault_decrease # withdraw_effects.invested_to_disinvest_ctokens
       THEN "LiquidityToWithdrawDoesNotMatch"
       ELSE IF user_ata_increase # total_amount_sent_to_user
       THEN "UserReceivedAmountDoesNotMatch"
       ELSE IF user_shares_diff # withdraw_effects.shares_to_burn
       THEN "SharesBurnedAmountDoesNotMatch"
       ELSE IF reserve_supply_liquidity_diff
                   # withdraw_effects.invested_liquidity_to_disinvest
       THEN "DisinvestedLiquidityAmountDoesNotMatch"
       ELSE "Ok"

\* steps 1 to 3 of the handler on the token accounts: burn, redeem, send.
\* The outcome is [err, balances].
withdraw_transfers(b, reserve, eff) ==
    Let([ctokens \in {eff.invested_to_disinvest_ctokens} |->
    Let([redeemed \in {IF ctokens > 0 THEN redeem_reserve_liquidity(reserve, ctokens) ELSE 0} |->
    Let([sent \in {eff.available_to_send_to_user + eff.invested_liquidity_to_send_to_user} |->
       IF b.user_shares_ata < eff.shares_to_burn
       THEN [err |-> "InsufficientFunds", balances |-> b]
       ELSE IF ctokens > 0 /\ (\/ b.ctoken_vault[reserve] < ctokens
                               \/ b.reserve_liquidity_supply[reserve] < redeemed)
       THEN [err |-> "InsufficientFunds", balances |-> b]
       ELSE IF redeemed < eff.invested_liquidity_to_send_to_user
       THEN [err |-> "NotEnoughLiquidityDisinvestedToSendToUser", balances |-> b]
       ELSE IF b.token_vault + redeemed < sent
       THEN [err |-> "InsufficientFunds", balances |-> b]
       ELSE [err |-> "Ok",
             balances |->
                 [b EXCEPT
                    !.user_shares_ata = @ - eff.shares_to_burn,
                    !.ctoken_vault =
                        IF ctokens > 0 THEN [@ EXCEPT ![reserve] = @ - ctokens] ELSE @,
                    !.reserve_liquidity_supply =
                        IF ctokens > 0 THEN [@ EXCEPT ![reserve] = @ - redeemed] ELSE @,
                    !.token_vault = @ + redeemed - sent,
                    !.user_token_ata = @ + sent]]
    ])])])

\* keys are the remaining accounts, reserve the reserve to withdraw from or
\* NoReserve; refreshed tells whether the reserves are refreshed first, as
\* the handler does.
withdraw_process(keys, refreshed, reserve, requested_shares) ==
    Let([accounts \in {IF refreshed THEN RefreshedAccounts(keys) ELSE PlainAccounts(keys)} |->
    Let([shares_amount \in {Min(requested_shares, balances.user_shares_ata)} |->
    Let([named \in {reserve # NoReserve} |->
    \* vault_state.allocation_for_reserve(..)?
    Let([r0 \in {IF named /\ ~is_allocated_to_reserve(vault, reserve)
              THEN Failed("ReserveNotPartOfAllocations", vault)
              ELSE withdraw(
                       vault, reserve,
                       IF named THEN ReserveAccount(reserve) ELSE NoEffects,
                       accounts, clock.unix_timestamp, clock.slot, shares_amount,
                       IF named
                       THEN vault.vault_allocation_strategy[
                                get_reserve_idx_in_allocation(vault, reserve)]
                                .ctoken_allocation
                       ELSE 0)} |->
    Let([moved \in {IF r0.err = "Ok"
                 THEN withdraw_transfers(balances, reserve, r0.eff)
                 ELSE [err |-> r0.err, balances |-> balances]} |->
    Let([checked \in {IF moved.err = "Ok"
                   THEN post_transfer_withdraw_balance_checks(
                            VaultAndUserBalances(balances, reserve),
                            VaultAndUserBalances(moved.balances, reserve),
                            r0.eff)
                   ELSE moved.err} |->
    Let([r \in {[r0 EXCEPT !.err = checked]} |->
       Outcome(r, moved.balances)
    ])])])])])])])

WithdrawIx(keys, refreshed, reserve, requested_shares) ==
    Commit("withdraw",
           [requested_shares |-> requested_shares,
            number_of_shares |-> Min(requested_shares, balances.user_shares_ata),
            reserve |-> reserve, keys |-> keys],
           withdraw_process(keys, refreshed, reserve, requested_shares))

---------------------------------------------------------------------------
(* SpecWithdraw: one call of withdraw in each of the states of a vault with *)
(* shares issued                                                           *)

WithdrawShares == {0, 1, 750, 1000, 1500}

WithdrawReserves == {NoReserve} \cup ReserveKeys

InitWithdraw ==
    /\ \E shares \in {1000, 1500}, available \in {0, 1, 1000, 1500},
          pending \in CorePendingFees, table \in CoreTables, fees \in CoreFees,
          min_withdraw \in {0, 1, 750} :
          vault = CoreVault(shares, available, pending, table, fees, 0, 0,
                            min_withdraw)
    /\ \E stale1 \in BOOLEAN : reserves = CoreReserves(stale1)
    /\ balances = CoreBalances(vault)
    /\ clock = [slot |-> CoreSlot, unix_timestamp |-> CoreNow]
    /\ last = NoInstruction

NextWithdraw ==
    /\ last.op = "none"
    /\ \E keys \in KeyLists(vault), reserve \in WithdrawReserves,
          requested_shares \in WithdrawShares :
          WithdrawIx(keys, FALSE, reserve, requested_shares)

SpecWithdraw == InitWithdraw /\ [][NextWithdraw]_vars

---------------------------------------------------------------------------
(* Properties of withdraw *)

WithdrawOk == last.op = "withdraw" /\ last.err = "Ok"

\* the last instruction was a withdraw that got as far as the amount checks
WithdrawComputed == last.op = "withdraw" /\ last.calc # NoEffects

\* what a successful withdraw delivers to the user
Delivered ==
    last.eff.available_to_send_to_user + last.eff.invested_liquidity_to_send_to_user

\* what a withdraw that got to the amount checks would deliver
WouldDeliver ==
    last.calc.available_to_send_to_user + last.calc.invested_liquidity_to_send_to_user
        - last.calc.liquidity_rounding_error

\* C8: the entitlement of a withdraw is floor(AUM) when the shares equal
\* shares_issued and floor(AUM * shares / shares_issued) otherwise;
\* available_to_send_to_user is the smaller of token_available and the
\* entitlement; what a successful withdraw delivers, from the available
\* tokens and from the reserve, never exceeds the entitlement.  With 1500
\* shares issued, an AUM of 1500 and no reserves, 750 shares give
\* available_to_send = 750 and shares_to_burn = 750.
C8_WithdrawEntitlement ==
    WithdrawComputed =>
        LET aum == last.calc.current_vault_aum
            shares_issued == last.pre_vault.shares_issued
            shares == last.args.number_of_shares
            entitlement == last.calc.total_for_user
        IN /\ shares = shares_issued =>
                  (entitlement * Scale <= aum /\ (entitlement + 1) * Scale > aum)
           /\ shares # shares_issued =>
                  /\ GeqProduct(aum, shares, FractionFrom(entitlement), shares_issued)
                  /\ ~GeqProduct(aum, shares, FractionFrom(entitlement + 1),
                                 shares_issued)
           /\ last.calc.available_to_send_to_user <= last.pre_vault.token_available
           /\ last.calc.available_to_send_to_user <= entitlement
           /\ \/ last.calc.available_to_send_to_user = last.pre_vault.token_available
              \/ last.calc.available_to_send_to_user = entitlement
           /\ last.err = "Ok" => Delivered <= entitlement
           /\ (/\ shares_issued = 1500
               /\ aum = FractionFrom(1500)
               /\ get_reserves_count(last.pre_vault) = 0
               /\ shares = 750)
                  => /\ last.calc.available_to_send_to_user = 750
                     /\ last.calc.shares_to_burn = 750

C8_Witness ==
    /\ WithdrawOk
    /\ last.pre_vault.shares_issued = 1500
    /\ last.calc.current_vault_aum = FractionFrom(1500)
    /\ get_reserves_count(last.pre_vault) = 0
    /\ last.args.number_of_shares = 750
    /\ last.eff.available_to_send_to_user = 750
    /\ last.eff.shares_to_burn = 750

\* C9 as the specification words it: the shares burned are the ceiling of
\* delivered * shares_issued / AUM, capped at the shares requested.
C9_AsWorded ==
    WithdrawOk =>
        LET aum == last.calc.current_vault_aum
            shares_issued == last.pre_vault.shares_issued
            shares == last.args.number_of_shares
            burned == last.eff.shares_to_burn
        IN /\ ~GeqProduct(burned - 1, aum, FractionFrom(Delivered), shares_issued)
           /\ burned < shares =>
                  GeqProduct(burned, aum, FractionFrom(Delivered), shares_issued)
           /\ 1 <= burned
           /\ burned <= shares

\* C10 as the specification words it: WithdrawAmountBelowMinimum if and only
\* if what would be delivered is strictly below min_withdraw_amount.
C10_AsWorded ==
    (WithdrawComputed /\ last.calc.shares_to_burn > 0) =>
        (last.err = "WithdrawAmountBelowMinimum"
            <=> WouldDeliver < last.pre_vault.min_withdraw_amount)

\* C9: the shares a successful withdraw burns are
\* ceil(T * shares_issued / floor(AUM)) capped at the shares requested, T
\* being available_to_send_to_user plus the liquidity drawn from the reserve
\* before the rounding error is taken off.  That is never less than the
\* ceiling of the share-equivalent, at the price AUM / shares_issued, of what
\* is delivered (capped likewise) and can be more; 1 <= shares_to_burn <=
\* requested, and shares_to_burn * AUM >= delivered * shares_issued unless
\* the cap applies.
C9_SharesToBurn ==
    WithdrawOk =>
        LET aum == last.calc.current_vault_aum
            shares_issued == last.pre_vault.shares_issued
            shares == last.args.number_of_shares
            theoretical == last.calc.theoretical_amount_to_send_to_user_f
            burned == last.eff.shares_to_burn
        IN /\ ~GeqProduct(FractionFrom(burned - 1), to_floor(aum),
                          theoretical, shares_issued)
           /\ burned < shares =>
                  /\ GeqProduct(FractionFrom(burned), to_floor(aum),
                                theoretical, shares_issued)
                  /\ GeqProduct(burned, aum, FractionFrom(Delivered), shares_issued)
           /\ 1 <= burned
           /\ burned <= shares

\* a withdraw drawing on a reserve that burns fewer shares than requested and
\* more than the share-equivalent of what it delivers
C9_Witness ==
    /\ WithdrawOk
    /\ last.eff.invested_liquidity_to_send_to_user > 0
    /\ last.eff.shares_to_burn < last.args.number_of_shares
    /\ GeqProduct(last.eff.shares_to_burn - 1, last.calc.current_vault_aum,
                  FractionFrom(Delivered), last.pre_vault.shares_issued)

---------------------------------------------------------------------------
(* Errors of the core operations *)

\* C2 as the specification words it: when the core deposit or withdraw
\* returns an error, every field of the vault record is as it was before the
\* call.
C2_AsWorded ==
    (last.op \in {"deposit", "withdraw"} /\ last.err \notin {"Ok", "Panic"}) =>
        last.core_vault = last.pre_vault

---------------------------------------------------------------------------
(* VaultState: the allocation table and the target allocations *)

\* the last empty slot where the first is sought
MutLastEmptySlot(v) ==
    IF \E i \in Slots : v.vault_allocation_strategy[i].reserve = DefaultPubkey
    THEN CHOOSE i \in Slots :
            /\ v.vault_allocation_strategy[i].reserve = DefaultPubkey
            /\ \A j \in Slots :
                   j > i => v.vault_allocation_strategy[j].reserve # DefaultPubkey
    ELSE 0

\* position() of the first empty slot, 0 for None
first_empty_slot(v) ==
    IF \E i \in Slots : v.vault_allocation_strategy[i].reserve = DefaultPubkey
    THEN CHOOSE i \in Slots :
            /\ v.vault_allocation_strategy[i].reserve = DefaultPubkey
            /\ \A j \in Slots :
                   j < i => v.vault_allocation_strategy[j].reserve # DefaultPubkey
    ELSE 0

upsert_reserve_allocation(v, reserve, target_allocation_weight, allocation_cap) ==
    IF is_allocated_to_reserve(v, reserve)
    THEN LET idx == get_reserve_idx_in_allocation(v, reserve) IN
         Ok([v EXCEPT
                !.vault_allocation_strategy[idx].target_allocation_weight =
                    target_allocation_weight,
                !.vault_allocation_strategy[idx].token_allocation_cap = allocation_cap])
    ELSE IF first_empty_slot(v) = 0
    THEN Err("ReserveSpaceExhausted")
    ELSE Ok([v EXCEPT
                !.vault_allocation_strategy[first_empty_slot(v)] =
                    LiveAllocation(reserve, 0, target_allocation_weight, allocation_cap)])

\* an entry without weight can go, whatever it holds
MutRemovableByWeight(allocation) == allocation.target_allocation_weight = 0

can_be_removed(allocation) ==
    allocation.ctoken_allocation = 0 /\ allocation.target_allocation_weight = 0

remove_reserve_from_allocation(v, reserve) ==
    IF ~is_allocated_to_reserve(v, reserve)
    THEN Err("ReserveNotPartOfAllocations")
    ELSE LET idx == get_reserve_idx_in_allocation(v, reserve) IN
         IF can_be_removed(v.vault_allocation_strategy[idx])
         THEN Ok([v EXCEPT !.vault_allocation_strategy[idx] = DefaultAllocation])
         ELSE Err("ReserveHasNonZeroAllocationOrCTokens")

RECURSIVE total_weight_from(_, _)
\* the weights of the live allocations with a cap, from slot i on
total_weight_from(v, i) ==
    IF i > MAX_RESERVES THEN 0
    ELSE LET r == v.vault_allocation_strategy[i] IN
         (IF r.reserve # DefaultPubkey /\ r.token_allocation_cap > 0
          THEN r.target_allocation_weight ELSE 0)
             + total_weight_from(v, i + 1)

\* every live entry, at its cap or not
MutFilterLiveOnly(allocation, token_target_allocation) ==
    allocation.reserve # DefaultPubkey

\* the filter of the for loop: the live entries below their cap
to_be_filled(allocation, token_target_allocation) ==
    /\ allocation.reserve # DefaultPubkey
    /\ token_target_allocation < FractionFrom(allocation.token_allocation_cap)

RECURSIVE refresh_pass(_, _, _, _, _, _)
\* one pass of the for loop of refresh_target_allocations, from slot i on;
\* st is [remaining_tokens, remaining_weight, targets, a_cap_was_reached, err]
refresh_pass(v, invested, loop_total_tokens, loop_weight, i, st) ==
    IF i > MAX_RESERVES \/ st.err # "Ok" THEN st
    ELSE LET allocation == v.vault_allocation_strategy[i]
             cap_f == FractionFrom(allocation.token_allocation_cap)
         IN
         IF ~to_be_filled(allocation, st.targets[i])
         THEN refresh_pass(v, invested, loop_total_tokens, loop_weight, i + 1, st)
         ELSE IF allocation.reserve # invested.allocations[i].reserve
         THEN [st EXCEPT !.err = "ReserveNotPartOfAllocations"]
         ELSE LET reserve_weight == allocation.target_allocation_weight
                  reserve_target_ideal ==
                      mul_int_ratio(loop_total_tokens, reserve_weight, loop_weight)
                  capped == reserve_target_ideal + st.targets[i] >= cap_f
                  reserve_target_capped ==
                      IF capped THEN cap_f - st.targets[i] ELSE reserve_target_ideal
              IN refresh_pass(v, invested, loop_total_tokens, loop_weight, i + 1,
                     [st EXCEPT
                         !.a_cap_was_reached = @ \/ capped,
                         !.remaining_weight = IF capped THEN @ - reserve_weight ELSE @,
                         !.remaining_tokens = @ - reserve_target_capped,
                         !.targets[i] = @ + reserve_target_capped])

\* the whole cap, whatever the weights
MutUnallocatedAtCap(v, total_tokens, total_weight) ==
    IF v.unallocated_weight > 0 THEN FractionFrom(v.unallocated_tokens_cap) ELSE 0

\* the tokens refresh_target_allocations leaves unallocated
unallocated_tokens_target_of(v, total_tokens, total_weight) ==
    IF v.unallocated_weight > 0
    THEN LET unallocated_cap ==
                 IF v.unallocated_tokens_cap = 0 THEN U64_MAX
                 ELSE v.unallocated_tokens_cap
         IN Min(mul_int_ratio(total_tokens, v.unallocated_weight,
                              total_weight + v.unallocated_weight),
                FractionFrom(unallocated_cap))
    ELSE 0

\* one pass, whether a cap was reached in it or not
MutRefreshOnePass(v, invested, st) ==
    IF st.err # "Ok" \/ ~(st.remaining_tokens > 0 /\ st.remaining_weight > 0)
    THEN st
    ELSE refresh_pass(v, invested, st.remaining_tokens, st.remaining_weight, 1,
                      [st EXCEPT !.a_cap_was_reached = FALSE])

RECURSIVE refresh_loop(_, _, _)
\* the while loop: passes until no cap is reached, or nothing is left
refresh_loop(v, invested, st) ==
    IF st.err # "Ok" \/ ~(st.remaining_tokens > 0 /\ st.remaining_weight > 0)
    THEN st
    ELSE LET after == refresh_pass(v, invested, st.remaining_tokens,
                                   st.remaining_weight, 1,
                                   [st EXCEPT !.a_cap_was_reached = FALSE])
         IN IF after.err # "Ok" \/ ~after.a_cap_was_reached
            THEN after
            ELSE refresh_loop(v, invested, after)

refresh_target_allocations(v, invested) ==
    Let([aum \in {compute_aum(v, invested.total)} |->
    IF aum.err # "Ok" THEN Err(aum.err) ELSE
    Let([total_tokens \in {aum.val} |->
    Let([total_weight \in {total_weight_from(v, 1)} |->
    Let([unallocated_tokens_target \in {
            unallocated_tokens_target_of(v, total_tokens, total_weight)} |->
    Let([st \in {refresh_loop(v, invested,
                  [remaining_tokens |-> total_tokens - unallocated_tokens_target,
                   remaining_weight |-> total_weight,
                   targets |-> [i \in Slots |-> 0],
                   a_cap_was_reached |-> FALSE,
                   err |-> "Ok"])} |->
       IF st.err # "Ok" THEN Err(st.err)
       ELSE Ok([v EXCEPT !.vault_allocation_strategy =
                   [i \in Slots |->
                       IF v.vault_allocation_strategy[i].reserve # DefaultPubkey
                       THEN [v.vault_allocation_strategy[i] EXCEPT
                                !.token_target_allocation_sf = st.targets[i]]
                       ELSE v.vault_allocation_strategy[i]]])
    ])])])])])

---------------------------------------------------------------------------
(* vault_operations::withdraw_pending_fees and give_up_pending_fee *)

withdraw_pending_fees(v, reserve_address_to_withdraw_from, reserve_state_to_withdraw_from, reserves_iter, current_slot, current_timestamp) ==
    Let([h \in {holdings(v, reserves_iter)} |->
    IF h.err # "Ok" THEN Failed(h.err, v) ELSE
    Let([invested \in {h.val.invested} |->
    Let([available \in {h.val.available} |->
    Let([v1 \in {charge_fees(v, invested, current_timestamp)} |->
    Let([total_fees \in {v1.pending_fees_sf} |->
    Let([available_to_send_to_user_f \in {Min(FractionFrom(available), total_fees)} |->
    Let([available_to_send_to_user \in {to_floor(available_to_send_to_user_f)} |->
    \* invested.in_reserve(..) unwraps
    IF ~has_in_reserve(invested, reserve_address_to_withdraw_from)
    THEN Panicked(v1) ELSE
    Let([invested_in_reserve \in {in_reserve(invested, reserve_address_to_withdraw_from)} |->
    Let([invested_liquidity_to_send_to_user_f \in {
            Min(invested_in_reserve.liquidity_amount,
                total_fees - available_to_send_to_user_f)} |->
    Let([invested_liquidity_to_send_to_user \in {
            to_floor(invested_liquidity_to_send_to_user_f)} |->
    Let([exchange_rate \in {collateral_exchange_rate(reserve_state_to_withdraw_from)} |->
    Let([invested_to_disinvest_ctokens \in {
            liquidity_to_collateral_ceil(exchange_rate,
                                         invested_liquidity_to_send_to_user)} |->
    Let([invested_liquidity_to_disinvest_f \in {
            fraction_collateral_to_liquidity(
                exchange_rate, FractionFrom(invested_to_disinvest_ctokens))} |->
    Let([invested_liquidity_to_disinvest \in {to_floor(invested_liquidity_to_disinvest_f)} |->
    Let([liquidity_rounding_error \in {
            IF frac(invested_liquidity_to_disinvest_f) > 0 THEN 1 ELSE 0} |->
    IF invested_liquidity_to_send_to_user < liquidity_rounding_error
    THEN Panicked(v1) ELSE
    Let([actual_invested_liquidity_to_send_to_user \in {
            invested_liquidity_to_send_to_user - liquidity_rounding_error} |->
    IF \/ invested_liquidity_to_disinvest < actual_invested_liquidity_to_send_to_user
       \/ invested_in_reserve.ctoken_amount < invested_to_disinvest_ctokens
    THEN Panicked(v1) ELSE
    Let([disinvested_amount_left_in_vault \in {
            invested_liquidity_to_disinvest - actual_invested_liquidity_to_send_to_user} |->
    Let([v2 \in {withdraw_from_vault(v1, available_to_send_to_user)} |->
    Let([v3 \in {deposit_into_vault(v2, disinvested_amount_left_in_vault)} |->
    Let([v4 \in {withdraw_from_vault_allocation(v3, invested_to_disinvest_ctokens,
                                             reserve_address_to_withdraw_from)} |->
    Let([v5 \in {update_pending_fees(
                  v4,
                  total_fees - FractionFrom(available_to_send_to_user)
                      - FractionFrom(invested_liquidity_to_send_to_user))} |->
       [err |-> "Ok",
        vault |-> v5,
        eff |-> [available_to_send_to_user |-> available_to_send_to_user,
                 invested_to_disinvest_ctokens |-> invested_to_disinvest_ctokens,
                 invested_liquidity_to_send_to_user |->
                     actual_invested_liquidity_to_send_to_user,
                 invested_liquidity_to_disinvest |-> invested_liquidity_to_disinvest],
        calc |-> [total_fees |-> total_fees,
                  liquidity_rounding_error |-> liquidity_rounding_error]]
    ])])])])])])])])])])])])])])])])])])])])])

give_up_pending_fee(v, reserves_iter, current_slot, current_timestamp, max_amount_to_give_up) ==
    Let([h \in {holdings(v, reserves_iter)} |->
    IF h.err # "Ok" THEN Failed(h.err, v) ELSE
    Let([v1 \in {charge_fees(v, h.val.invested, current_timestamp)} |->
    Let([amount \in {FractionFrom(max_amount_to_give_up)} |->
    Let([pending_fees \in {get_pending_fees(v1)} |->
    Let([amount_to_give_up \in {Min(amount, pending_fees)} |->
    Let([new_pending_fees \in {pending_fees - amount_to_give_up} |->
    Let([v2 \in {update_pending_fees(v1, new_pending_fees)} |->
    Let([v3 \in {[v2 EXCEPT !.last_fee_charge_timestamp = current_timestamp]} |->
    Let([prev_aum \in {SatSub(h.val.total_sum, new_pending_fees)} |->
       [err |-> "Ok",
        vault |-> update_prev_aum(v3, prev_aum),
        eff |-> [amount_to_give_up |-> amount_to_give_up],
        calc |-> [pending_fees |-> pending_fees]]
    ])])])])])])])])])

---------------------------------------------------------------------------
(* vault_operations::invest *)

\* the floor of the gap's collateral, whatever the weight
MutCollateralOfGap(allocation_for_reserve, exchange_rate, liquidity_f) ==
    to_floor(fraction_liquidity_to_collateral(exchange_rate, liquidity_f))

\* the collateral an invest moves: all of it for a reserve of weight 0
collateral_to_move(allocation_for_reserve, exchange_rate, liquidity_f) ==
    IF allocation_for_reserve.target_allocation_weight = 0
    THEN allocation_for_reserve.ctoken_allocation
    ELSE to_floor(fraction_liquidity_to_collateral(exchange_rate, liquidity_f))

invest(v, reserves_iter, reserve, reserve_address, current_slot, current_timestamp) ==
    Let([h \in {holdings(v, reserves_iter)} |->
    IF h.err # "Ok" THEN Failed(h.err, v) ELSE
    Let([invested \in {h.val.invested} |->
    Let([v1 \in {charge_fees(v, invested, current_timestamp)} |->
    Let([refreshed \in {refresh_target_allocations(v1, invested)} |->
    IF refreshed.err # "Ok" THEN Failed(refreshed.err, v1) ELSE
    Let([v2 \in {refreshed.val} |->
    IF ~is_allocated_to_reserve(v2, reserve_address)
    THEN Failed("ReserveNotPartOfAllocations", v2) ELSE
    Let([allocation_for_reserve \in {
            v2.vault_allocation_strategy[
                get_reserve_idx_in_allocation(v2, reserve_address)]} |->
    IF current_slot < allocation_for_reserve.last_invest_slot + v2.min_invest_delay_slots
    THEN Failed("InvestTooSoon", v2) ELSE
    \* invested.in_reserve(..) unwraps
    IF ~has_in_reserve(invested, reserve_address) THEN Panicked(v2) ELSE
    Let([actual_tokens_invested \in {in_reserve(invested, reserve_address).liquidity_amount} |->
    Let([target_tokens_invested \in {allocation_for_reserve.token_target_allocation_sf} |->
    Let([direction \in {IF actual_tokens_invested > target_tokens_invested
                     THEN "Subtract" ELSE "Add"} |->
    Let([liquidity_f \in {
            IF direction = "Subtract"
            THEN actual_tokens_invested - target_tokens_invested
            ELSE Min(target_tokens_invested - actual_tokens_invested,
                     FractionFrom(available_to_invest(v2)))} |->
    IF liquidity_f <= FractionFrom(v2.min_invest_amount)
    THEN Failed("InvestAmountBelowMinimum", v2) ELSE
    Let([exchange_rate \in {collateral_exchange_rate(reserve)} |->
    Let([collateral_amount \in {
            collateral_to_move(allocation_for_reserve, exchange_rate, liquidity_f)} |->
    Let([liquidity_amount_f \in {
            fraction_collateral_to_liquidity(exchange_rate,
                                             FractionFrom(collateral_amount))} |->
    Let([rounding_loss \in {IF frac(liquidity_amount_f) > 0 THEN 1 ELSE 0} |->
    Let([liquidity_amount \in {IF direction = "Add" THEN to_ceil(liquidity_amount_f)
                            ELSE to_floor(liquidity_amount_f)} |->
    Let([calc \in {[actual_tokens_invested |-> actual_tokens_invested,
                 target_tokens_invested |-> target_tokens_invested,
                 liquidity_f |-> liquidity_f,
                 liquidity_amount_f |-> liquidity_amount_f]} |->
    \* the subtractions and additions on the u64 fields
    IF \/ direction = "Add" /\ v2.token_available < liquidity_amount - rounding_loss
       \/ direction = "Add"
              /\ allocation_for_reserve.ctoken_allocation + collateral_amount > U64_MAX
       \/ direction = "Subtract"
              /\ allocation_for_reserve.ctoken_allocation < collateral_amount
       \/ direction = "Subtract"
              /\ v2.token_available + liquidity_amount + rounding_loss > U64_MAX
    THEN Panicked(v2) ELSE
    Let([v3 \in {IF direction = "Add"
              THEN deposit_into_vault_allocation(
                       withdraw_from_vault(v2, liquidity_amount - rounding_loss),
                       collateral_amount, reserve_address)
              ELSE withdraw_from_vault_allocation(
                       deposit_into_vault(v2, liquidity_amount + rounding_loss),
                       collateral_amount, reserve_address)} |->
    Let([covered \in {v3.available_crank_funds >= rounding_loss} |->
    Let([v4 \in {IF covered
              THEN [v3 EXCEPT !.available_crank_funds = @ - rounding_loss]
              ELSE v3} |->
    Let([v5 \in {[v4 EXCEPT
                  !.vault_allocation_strategy[
                       get_reserve_idx_in_allocation(v4, reserve_address)]
                       .last_invest_slot = current_slot]} |->
       [err |-> "Ok",
        vault |-> v5,
        eff |-> [liquidity_amount |-> liquidity_amount,
                 direction |-> direction,
                 collateral_amount |-> collateral_amount,
                 rounding_loss |-> IF covered THEN 0 ELSE rounding_loss],
        calc |-> calc]
    ])])])])])])])])])])])])])])])])])])])])

---------------------------------------------------------------------------
(* handler_update_vault_config::process: the fields of the configuration *)

\* any management fee is taken
MutMgmtFeeUnchecked(management_fee_bps) == FALSE

\* management_fee_bps > MAX_MGMT_FEE_BPS
management_fee_too_big(management_fee_bps) == management_fee_bps > MAX_MGMT_FEE_BPS

update_vault_config(v, reserves_iter, entry, data, current_timestamp) ==
    Let([h \in {holdings(v, reserves_iter)} |->
    IF h.err # "Ok" THEN Failed(h.err, v) ELSE
    Let([v1 \in {charge_fees(v, h.val.invested, current_timestamp)} |->
    LET done(v2) == [err |-> "Ok", vault |-> v2, eff |-> NoEffects, calc |-> NoEffects] IN
    CASE entry = "PerformanceFeeBps" ->
            IF data > FULL_BPS THEN Failed("BPSValueTooBig", v1)
            ELSE done([v1 EXCEPT !.performance_fee_bps = data])
      [] entry = "ManagementFeeBps" ->
            IF management_fee_too_big(data)
            THEN Failed("ManagementFeeGreaterThanMaxAllowed", v1)
            ELSE done([v1 EXCEPT !.management_fee_bps = data])
      [] entry = "MinDepositAmount" -> done([v1 EXCEPT !.min_deposit_amount = data])
      [] entry = "MinWithdrawAmount" ->
            IF data > UPPER_LIMIT_MIN_WITHDRAW_AMOUNT
            THEN Failed("MinWithdrawAmountTooBig", v1)
            ELSE done([v1 EXCEPT !.min_withdraw_amount = data])
      [] entry = "MinInvestAmount" -> done([v1 EXCEPT !.min_invest_amount = data])
      [] entry = "MinInvestDelaySlots" ->
            done([v1 EXCEPT !.min_invest_delay_slots = data])
      [] entry = "CrankFundFeePerReserve" ->
            done([v1 EXCEPT !.crank_fund_fee_per_reserve = data])
      [] entry = "PendingVaultAdmin" -> done([v1 EXCEPT !.pending_admin = data])
      [] entry = "AllocationAdmin" -> done([v1 EXCEPT !.allocation_admin = data])
      \* Name, LookupTable, Farm: fields the model does not carry
      [] OTHER -> done(v1)
    ])])

---------------------------------------------------------------------------
(* handler_invest::process *)

\* klend mints the whole ctokens a deposit of liquidity is worth
deposit_reserve_liquidity(k, liquidity_amount) ==
    to_floor(fraction_liquidity_to_collateral(
                 collateral_exchange_rate(ReserveAccount(k)),
                 FractionFrom(liquidity_amount)))

capture_aum(v, reserves_iter) ==
    Let([invested \in {amounts_invested(v, reserves_iter)} |->
    IF invested.err # "Ok" THEN Err(invested.err)
    ELSE compute_aum(v, invested.val.total)
    ])

VaultBalances(b, reserve) ==
    [vault_token_balance |-> b.token_vault,
     vault_ctoken_balance |-> b.ctoken_vault[reserve],
     reserve_supply_liquidity_balance |-> b.reserve_liquidity_supply[reserve]]

\* vault_checks::post_transfer_invest_checks: "Ok" or the error
post_transfer_invest_checks(amounts_before, amounts_after, invest_effects, aum_before, aum_after) ==
    LET liquidity_amount == invest_effects.liquidity_amount
        collateral_amount == invest_effects.collateral_amount
        rounding_loss == invest_effects.rounding_loss
        add == invest_effects.direction = "Add"
    IN
    IF \/ amounts_after.vault_token_balance < rounding_loss
       \/ add /\ amounts_before.vault_token_balance < liquidity_amount
       \/ ~add /\ amounts_before.vault_ctoken_balance < collateral_amount
       \/ ~add /\ amounts_before.reserve_supply_liquidity_balance < liquidity_amount
    THEN "Panic"
    ELSE IF add /\ (\/ amounts_before.vault_token_balance - liquidity_amount
                           # amounts_after.vault_token_balance - rounding_loss
                    \/ amounts_before.vault_ctoken_balance + collateral_amount
                           # amounts_after.vault_ctoken_balance
                    \/ amounts_before.reserve_supply_liquidity_balance + liquidity_amount
                           # amounts_after.reserve_supply_liquidity_balance)
    THEN "RequireEqViolated"
    ELSE IF ~add /\ (\/ amounts_before.vault_token_balance + liquidity_amount
                            # amounts_after.vault_token_balance - rounding_loss
                     \/ amounts_before.vault_ctoken_balance - collateral_amount
                            # amounts_after.vault_ctoken_balance
                     \/ amounts_before.reserve_supply_liquidity_balance - liquidity_amount
                            # amounts_after.reserve_supply_liquidity_balance)
    THEN "RequireEqViolated"
    ELSE IF ~(aum_after >= aum_before)
    THEN "AUMDecreasedAfterInvest"
    ELSE "Ok"

\* the transfers of the handler: the rounding loss from the payer, then the
\* deposit into or the redemption from the reserve.  The outcome is
\* [err, balances].
invest_transfers(b, reserve, eff) ==
    IF b.payer_token_ata < eff.rounding_loss
    THEN [err |-> "InsufficientFunds", balances |-> b] ELSE
    LET b1 == [b EXCEPT !.payer_token_ata = @ - eff.rounding_loss,
                        !.token_vault = @ + eff.rounding_loss]
    IN
    IF eff.liquidity_amount = 0 THEN [err |-> "Ok", balances |-> b1]
    ELSE IF eff.direction = "Add"
    THEN IF b1.token_vault < eff.liquidity_amount
         THEN [err |-> "InsufficientFunds", balances |-> b]
         ELSE [err |-> "Ok",
               balances |->
                   [b1 EXCEPT
                      !.token_vault = @ - eff.liquidity_amount,
                      !.reserve_liquidity_supply[reserve] = @ + eff.liquidity_amount,
                      !.ctoken_vault[reserve] =
                          @ + deposit_reserve_liquidity(reserve, eff.liquidity_amount)]]
    ELSE LET redeemed == redeem_reserve_liquidity(reserve, eff.collateral_amount) IN
         IF \/ b1.ctoken_vault[reserve] < eff.collateral_amount
            \/ b1.reserve_liquidity_supply[reserve] < redeemed
         THEN [err |-> "InsufficientFunds", balances |-> b]
         ELSE [err |-> "Ok",
               balances |->
                   [b1 EXCEPT
                      !.ctoken_vault[reserve] = @ - eff.collateral_amount,
                      !.reserve_liquidity_supply[reserve] = @ - redeemed,
                      !.token_vault = @ + redeemed]]

invest_process(keys, refreshed, reserve) ==
    Let([accounts \in {IF refreshed THEN RefreshedAccounts(keys) ELSE PlainAccounts(keys)} |->
    Let([initial_holdings \in {holdings(vault, accounts)} |->
    Let([r0 \in {IF initial_holdings.err # "Ok"
              THEN Failed(initial_holdings.err, vault)
              ELSE invest(vault, accounts, ReserveAccount(reserve), reserve,
                          clock.slot, clock.unix_timestamp)} |->
    Let([aum_before_transfers \in {
            IF r0.err = "Ok" THEN capture_aum(r0.vault, accounts) ELSE Err(r0.err)} |->
    Let([moved \in {IF aum_before_transfers.err = "Ok"
                 THEN invest_transfers(balances, reserve, r0.eff)
                 ELSE [err |-> aum_before_transfers.err, balances |-> balances]} |->
    Let([aum_after_transfers \in {capture_aum(r0.vault, accounts)} |->
    Let([checked \in {IF moved.err = "Ok"
                   THEN post_transfer_invest_checks(
                            VaultBalances(balances, reserve),
                            VaultBalances(moved.balances, reserve),
                            r0.eff, aum_before_transfers.val, aum_after_transfers.val)
                   ELSE moved.err} |->
    Let([r \in {[r0 EXCEPT !.err = checked]} |->
       Outcome(r, moved.balances)
    ])])])])])])])])

InvestIx(keys, refreshed, reserve) ==
    Commit("invest", [reserve |-> reserve, keys |-> keys],
           invest_process(keys, refreshed, reserve))

---------------------------------------------------------------------------
(* handler_withdraw_pending_fees::process *)

\* vault_checks::post_transfer_withdraw_pending_fees_balance_checks
post_transfer_withdraw_pending_fees_balance_checks(amounts_before, amounts_after, withdraw_fees_effects) ==
    IF amounts_before.vault_ctoken_balance < amounts_after.vault_ctoken_balance
    THEN "Panic" ELSE
    LET token_vault_diff ==
            amounts_before.vault_token_balance - amounts_after.vault_token_balance
        ctoken_vault_decrease ==
            amounts_before.vault_ctoken_balance - amounts_after.vault_ctoken_balance
        reserve_supply_liquidity_diff ==
            amounts_before.reserve_supply_liquidity_balance
                - amounts_after.reserve_supply_liquidity_balance
        admin_ata_diff ==
            amounts_after.user_token_balance - amounts_before.user_token_balance
        total_amount_sent_to_user ==
            withdraw_fees_effects.available_to_send_to_user
                + withdraw_fees_effects.invested_liquidity_to_send_to_user
    IN IF \/ total_amount_sent_to_user # reserve_supply_liquidity_diff + token_vault_diff
          \/ ctoken_vault_decrease # withdraw_fees_effects.invested_to_disinvest_ctokens
          \/ admin_ata_diff # total_amount_sent_to_user
          \/ reserve_supply_liquidity_diff
                 # withdraw_fees_effects.invested_liquidity_to_disinvest
       THEN "TooMuchLiquidityToWithdraw"
       ELSE "Ok"

\* the balances the handler caches, the admin's account in the user's place
VaultAndAdminBalances(b, reserve) ==
    [reserve_supply_liquidity_balance |-> b.reserve_liquidity_supply[reserve],
     vault_token_balance |-> b.token_vault,
     vault_ctoken_balance |-> b.ctoken_vault[reserve],
     user_token_balance |-> b.admin_token_ata,
     user_shares_balance |-> 0]

\* the redemption and the transfer to the admin.  The outcome is
\* [err, balances].
withdraw_pending_fees_transfers(b, reserve, eff) ==
    Let([ctokens \in {eff.invested_to_disinvest_ctokens} |->
    Let([liquidity_received \in {
            IF ctokens > 0 THEN redeem_reserve_liquidity(reserve, ctokens) ELSE 0} |->
    Let([sent \in {eff.available_to_send_to_user + eff.invested_liquidity_to_send_to_user} |->
       IF ctokens > 0 /\ (\/ b.ctoken_vault[reserve] < ctokens
                          \/ b.reserve_liquidity_supply[reserve] < liquidity_received)
       THEN [err |-> "InsufficientFunds", balances |-> b]
       ELSE IF liquidity_received < eff.invested_liquidity_to_send_to_user
       THEN [err |-> "NotEnoughLiquidityDisinvestedToSendToUser", balances |-> b]
       ELSE IF b.token_vault + liquidity_received < sent
       THEN [err |-> "InsufficientFunds", balances |-> b]
       ELSE [err |-> "Ok",
             balances |->
                 [b EXCEPT
                    !.ctoken_vault[reserve] = @ - ctokens,
                    !.reserve_liquidity_supply[reserve] = @ - liquidity_received,
                    !.token_vault = @ + liquidity_received - sent,
                    !.admin_token_ata = @ + sent]]
    ])])])

withdraw_pending_fees_process(keys, refreshed, reserve) ==
    Let([accounts \in {IF refreshed THEN RefreshedAccounts(keys) ELSE PlainAccounts(keys)} |->
    \* vault_state.allocation_for_reserve(..)?
    Let([r0 \in {IF ~is_allocated_to_reserve(vault, reserve)
              THEN Failed("ReserveNotPartOfAllocations", vault)
              ELSE withdraw_pending_fees(vault, reserve, ReserveAccount(reserve),
                                         accounts, clock.slot, clock.unix_timestamp)} |->
    Let([moved \in {IF r0.err = "Ok"
                 THEN withdraw_pending_fees_transfers(balances, reserve, r0.eff)
                 ELSE [err |-> r0.err, balances |-> balances]} |->
    Let([checked \in {IF moved.err = "Ok"
                   THEN post_transfer_withdraw_pending_fees_balance_checks(
                            VaultAndAdminBalances(balances, reserve),
                            VaultAndAdminBalances(moved.balances, reserve),
                            r0.eff)
                   ELSE moved.err} |->
    Let([r \in {[r0 EXCEPT !.err = checked]} |->
       Outcome(r, moved.balances)
    ])])])])])

WithdrawPendingFeesIx(keys, refreshed, reserve) ==
    Commit("withdraw_pending_fees", [reserve |-> reserve, keys |-> keys],
           withdraw_pending_fees_process(keys, refreshed, reserve))

---------------------------------------------------------------------------
(* The instructions that move no tokens *)

\* handler_give_up_pending_fees::process
give_up_pending_fees_process(keys, refreshed, max_amount_to_give_up) ==
    Let([accounts \in {IF refreshed THEN RefreshedAccounts(keys) ELSE PlainAccounts(keys)} |->
    Let([r \in {give_up_pending_fee(vault, accounts, clock.slot, clock.unix_timestamp,
                                 max_amount_to_give_up)} |->
       Outcome(r, balances)
    ])])

GiveUpPendingFeesIx(keys, refreshed, max_amount_to_give_up) ==
    Commit("give_up_pending_fee",
           [max_amount_to_give_up |-> max_amount_to_give_up, keys |-> keys],
           give_up_pending_fees_process(keys, refreshed, max_amount_to_give_up))

\* handler_update_vault_config::process
update_vault_config_process(keys, refreshed, entry, data) ==
    Let([accounts \in {IF refreshed THEN RefreshedAccounts(keys) ELSE PlainAccounts(keys)} |->
    Let([r \in {update_vault_config(vault, accounts, entry, data, clock.unix_timestamp)} |->
       Outcome(r, balances)
    ])])

UpdateVaultConfigIx(keys, refreshed, entry, data) ==
    Commit("update_vault_config", [entry |-> entry, data |-> data, keys |-> keys],
           update_vault_config_process(keys, refreshed, entry, data))

\* handler_update_reserve_allocation::process
update_reserve_allocation_process(signer, reserve, target_allocation_weight, allocation_cap) ==
    Let([is_vault_admin \in {signer = vault.vault_admin_authority} |->
    Let([is_allocation_admin \in {signer = vault.allocation_admin} |->
    Let([allowed \in {IF is_allocated_to_reserve(vault, reserve)
                   THEN is_allocation_admin \/ is_vault_admin
                   ELSE is_vault_admin} |->
    Let([upserted \in {upsert_reserve_allocation(vault, reserve, target_allocation_weight,
                                              allocation_cap)} |->
    Let([r \in {IF ~allowed THEN Failed("WrongAdminOrAllocationAdmin", vault)
             ELSE IF upserted.err # "Ok" THEN Failed(upserted.err, vault)
             ELSE [err |-> "Ok", vault |-> upserted.val, eff |-> NoEffects,
                   calc |-> NoEffects]} |->
       Outcome(r, balances)
    ])])])])])

UpdateReserveAllocationIx(signer, reserve, target_allocation_weight, allocation_cap) ==
    Commit("update_reserve_allocation",
           [signer |-> signer, reserve |-> reserve,
            target_allocation_weight |-> target_allocation_weight,
            allocation_cap |-> allocation_cap],
           update_reserve_allocation_process(signer, reserve,
                                             target_allocation_weight, allocation_cap))

\* handler_remove_allocation::process
remove_allocation_process(reserve) ==
    Let([removed \in {remove_reserve_from_allocation(vault, reserve)} |->
    Let([r \in {IF removed.err # "Ok" THEN Failed(removed.err, vault)
             ELSE [err |-> "Ok", vault |-> removed.val, eff |-> NoEffects,
                   calc |-> NoEffects]} |->
       Outcome(r, balances)
    ])])

RemoveAllocationIx(reserve) ==
    Commit("remove_allocation", [reserve |-> reserve],
           remove_allocation_process(reserve))

---------------------------------------------------------------------------
(* Spec: the life of a vault from init_vault on, at fixed exchange rates.   *)
(* Every instruction is given the reserves of the table, refreshed, as the  *)
(* handlers do, and time passes between instructions.  A transaction that   *)
(* fails leaves no trace: the steps are the instructions that succeed, and  *)
(* `last` keeps their number, name and arguments.                           *)

\* how many instructions a run holds, and how many times the clock moves
MaxInstructions == 4
MaxTicks == 1

\* the years the clock moves by
TickYears == {1, 11}

SpecDepositAmounts == {500}
SpecWithdrawShares == {250, 500}
SpecWithdrawReserves == {NoReserve, 1}
SpecGiveUpAmounts == {1, U64_MAX}
SpecConfigUpdates ==
    {<<"ManagementFeeBps", MAX_MGMT_FEE_BPS>>, <<"PerformanceFeeBps", FULL_BPS \div 2>>,
     <<"CrankFundFeePerReserve", 1>>}
\* <<reserve, target_allocation_weight, allocation_cap>>
SpecAllocations == {<<1, 1, 600>>, <<1, 0, 600>>, <<2, 1, U64_MAX>>}

\* handler_init_vault::process on the zeroed account
InitVault ==
    deposit([ZeroedVault EXCEPT !.creation_timestamp = CoreNow], <<>>,
            INITIAL_DEPOSIT_AMOUNT, CoreSlot, CoreNow).vault

Init ==
    /\ vault = InitVault
    /\ reserves = CoreReserves(FALSE)
    /\ balances = [CoreBalances(InitVault) EXCEPT
                      !.user_token_ata = 1000, !.user_shares_ata = 0]
    /\ clock = [slot |-> CoreSlot, unix_timestamp |-> CoreNow]
    /\ last = NoInstruction

\* The instruction as a step of a run: it lands when it succeeds
Land(op, args, out) ==
    /\ last.seq < MaxInstructions
    /\ out.err = "Ok"
    /\ last' = [NoInstruction EXCEPT !.seq = last.seq + 1, !.op = op, !.args = args]
    /\ vault' = out.vault
    /\ balances' = out.balances
    /\ UNCHANGED <<reserves, clock>>

Deposit ==
    \E max_amount \in SpecDepositAmounts :
        Land("deposit", [max_amount |-> max_amount],
             deposit_process(LiveReserves(vault), TRUE, max_amount))

Withdraw ==
    \E reserve \in SpecWithdrawReserves, shares \in SpecWithdrawShares :
        Land("withdraw", [reserve |-> reserve, requested_shares |-> shares],
             withdraw_process(LiveReserves(vault), TRUE, reserve, shares))

WithdrawPendingFees ==
    \E reserve \in ReserveKeys :
        Land("withdraw_pending_fees", [reserve |-> reserve],
             withdraw_pending_fees_process(LiveReserves(vault), TRUE, reserve))

GiveUpPendingFees ==
    \E amount \in SpecGiveUpAmounts :
        Land("give_up_pending_fee", [max_amount_to_give_up |-> amount],
             give_up_pending_fees_process(LiveReserves(vault), TRUE, amount))

Invest ==
    \E reserve \in ReserveKeys :
        Land("invest", [reserve |-> reserve],
             invest_process(LiveReserves(vault), TRUE, reserve))

UpdateVaultConfig ==
    \E u \in SpecConfigUpdates :
        Land("update_vault_config", [entry |-> u[1], data |-> u[2]],
             update_vault_config_process(LiveReserves(vault), TRUE, u[1], u[2]))

UpdateReserveAllocation ==
    \E a \in SpecAllocations :
        Land("update_reserve_allocation",
             [reserve |-> a[1], target_allocation_weight |-> a[2],
              allocation_cap |-> a[3]],
             update_reserve_allocation_process("admin", a[1], a[2], a[3]))

RemoveAllocation ==
    \E reserve \in ReserveKeys :
        Land("remove_allocation", [reserve |-> reserve],
             remove_allocation_process(reserve))

Tick ==
    /\ clock.slot < CoreSlot + MaxTicks
    /\ \E years \in TickYears :
          clock' = [slot |-> clock.slot + 1,
                    unix_timestamp |-> clock.unix_timestamp + years * SECONDS_PER_YEAR]
    /\ UNCHANGED <<vault, reserves, balances, last>>

Next ==
    \/ Deposit
    \/ Withdraw
    \/ WithdrawPendingFees
    \/ GiveUpPendingFees
    \/ Invest
    \/ UpdateVaultConfig
    \/ UpdateReserveAllocation
    \/ RemoveAllocation
    \/ Tick

Spec == Init /\ [][Next]_vars

---------------------------------------------------------------------------
(* Properties of the ledger *)

\* token_available plus the liquidity of the ctokens at the reserves' rates
HoldingsOf(v) == holdings(v, RefreshedAccounts(LiveReserves(v))).val.total_sum

\* what charge_fees would add to pending_fees when called on v at time t
ChargedAt(v, t) ==
    charge_fees(v, amounts_invested(v, RefreshedAccounts(LiveReserves(v))).val, t)
        .pending_fees_sf - v.pending_fees_sf

\* C1: at fixed exchange rates, in every state a vault reaches from
\* init_vault by deposit, withdraw, withdraw_pending_fees,
\* give_up_pending_fee, invest and configuration updates, token_available
\* plus the invested liquidity is at least pending_fees (the AUM is not
\* negative), and charge_fees, whenever it is called, adds no more than the
\* AUM it finds to pending_fees.
C1_AumNeverNegative ==
    /\ HoldingsOf(vault) >= vault.pending_fees_sf
    /\ ChargedAt(vault, clock.unix_timestamp)
           <= HoldingsOf(vault) - vault.pending_fees_sf

\* fees were charged that the AUM capped, on a vault holding ctokens: the
\* pending fees are all the holdings
C1_Witness ==
    /\ last.op \in {"withdraw", "withdraw_pending_fees", "give_up_pending_fee",
                    "invest", "update_vault_config"}
    /\ \E i \in Slots : vault.vault_allocation_strategy[i].ctoken_allocation > 0
    /\ vault.pending_fees_sf > 0
    /\ HoldingsOf(vault) = vault.pending_fees_sf

---------------------------------------------------------------------------
(* SpecWithdrawChecks: the withdraw handler on a vault with shares issued, *)
(* and post_transfer_withdraw_balance_checks on the balances the handler   *)
(* would read after transfers that are off by one in some accounts.        *)

\* by how much each balance read after the transfers is off:
\* <<reserve supply, token vault, ctoken vault, user tokens, user shares>>
BalanceDeviations ==
    {d \in [1..5 -> {-1, 0, 1}] : Cardinality({i \in 1..5 : d[i] # 0}) <= 2}

InitWithdrawChecks ==
    /\ \E shares \in {1000, 1500}, available \in {0, 1, 1000}, table \in CoreTables :
          vault = CoreVault(shares, available, 0, table, <<0, 0, 0, 0>>, 0, 0, 0)
    /\ reserves = CoreReserves(FALSE)
    /\ balances = CoreBalances(vault)
    /\ clock = [slot |-> CoreSlot, unix_timestamp |-> CoreNow]
    /\ last = NoInstruction

\* the handler, as it is
WithdrawAsReported ==
    /\ last.op = "none"
    /\ \E reserve \in WithdrawReserves, requested_shares \in {1, 750, 1500} :
          WithdrawIx(LiveReserves(vault), TRUE, reserve, requested_shares)

\* the checks on the effects out.eff of a core withdraw and the balances given
ChecksOn(out, amounts_before, amounts_after, d) ==
    /\ out.err = "Ok"
    /\ \A f \in DOMAIN amounts_after : amounts_after[f] >= 0
    /\ last' = [NoInstruction EXCEPT
                   !.seq = 1,
                   !.op = "post_transfer_withdraw_balance_checks",
                   !.args = [amounts_before |-> amounts_before,
                             amounts_after |-> amounts_after,
                             deviation |-> d],
                   !.eff = out.eff,
                   !.err = post_transfer_withdraw_balance_checks(
                               amounts_before, amounts_after, out.eff)]
    /\ UNCHANGED <<vault, reserves, balances, clock>>

\* the balances the handler reads after its transfers, off by d
DeviatedAfter(out, reserve, d) ==
    IF out.err # "Ok" THEN VaultAndUserBalances(balances, reserve) ELSE
    Let([amounts \in {VaultAndUserBalances(out.balances, reserve)} |->
        [reserve_supply_liquidity_balance |-> amounts.reserve_supply_liquidity_balance + d[1],
         vault_token_balance |-> amounts.vault_token_balance + d[2],
         vault_ctoken_balance |-> amounts.vault_ctoken_balance + d[3],
         user_token_balance |-> amounts.user_token_balance + d[4],
         user_shares_balance |-> amounts.user_shares_balance + d[5]]
    ])

\* the checks alone, on the effects of the core withdraw and on balances that
\* differ from what the handler's transfers leave
WithdrawChecksOnDeviation ==
    /\ last.op = "none"
    /\ \E reserve \in WithdrawReserves, requested_shares \in {1, 750, 1500},
          d \in BalanceDeviations :
          ChecksOn(withdraw_process(LiveReserves(vault), TRUE, reserve, requested_shares),
                   VaultAndUserBalances(balances, reserve),
                   DeviatedAfter(withdraw_process(LiveReserves(vault), TRUE, reserve,
                                                  requested_shares), reserve, d),
                   d)

NextWithdrawChecks == WithdrawAsReported \/ WithdrawChecksOnDeviation

SpecWithdrawChecks == InitWithdrawChecks /\ [][NextWithdrawChecks]_vars

\* the errors of post_transfer_withdraw_balance_checks
WithdrawCheckErrors ==
    {"AmountToWithdrawDoesNotMatch", "LiquidityToWithdrawDoesNotMatch",
     "UserReceivedAmountDoesNotMatch", "SharesBurnedAmountDoesNotMatch",
     "DisinvestedLiquidityAmountDoesNotMatch"}

\* the four equalities between the effects and the balance changes
WithdrawBalancesMatch(amounts_before, amounts_after, eff) ==
    /\ amounts_after.user_token_balance - amounts_before.user_token_balance
          = eff.available_to_send_to_user + eff.invested_liquidity_to_send_to_user
    /\ amounts_before.user_shares_balance - amounts_after.user_shares_balance
          = eff.shares_to_burn
    /\ amounts_before.vault_ctoken_balance - amounts_after.vault_ctoken_balance
          = eff.invested_to_disinvest_ctokens
    /\ amounts_before.reserve_supply_liquidity_balance
          - amounts_after.reserve_supply_liquidity_balance
          = eff.invested_liquidity_to_disinvest

\* C11: when the handler burns shares_to_burn, redeems
\* invested_to_disinvest_ctokens (for the floor of their liquidity value) and
\* sends available_to_send_to_user + invested_liquidity_to_send_to_user, the
\* four equalities between the WithdrawEffects and the balance changes hold
\* and post_transfer_withdraw_balance_checks passes; on balances for which
\* one of the equalities fails the check does not return Ok.
C11_WithdrawChecks ==
    /\ (last.op = "withdraw" /\ last.eff # NoEffects) =>
          LET moved == withdraw_transfers(last.pre_balances, last.args.reserve, last.eff)
              amounts_before == VaultAndUserBalances(last.pre_balances, last.args.reserve)
              amounts_after == VaultAndUserBalances(moved.balances, last.args.reserve)
          IN /\ last.err \notin WithdrawCheckErrors
             /\ moved.err = "Ok" =>
                   /\ WithdrawBalancesMatch(amounts_before, amounts_after, last.eff)
                   /\ post_transfer_withdraw_balance_checks(
                          amounts_before, amounts_after, last.eff) = "Ok"
                   /\ last.err = "Ok"
    /\ last.op = "post_transfer_withdraw_balance_checks" =>
          (last.err = "Ok"
              => WithdrawBalancesMatch(last.args.amounts_before,
                                       last.args.amounts_after, last.eff))

\* a withdraw that sent available tokens and tokens redeemed from a reserve
\* passed the checks
C11_Witness ==
    /\ WithdrawOk
    /\ last.eff.invested_to_disinvest_ctokens > 0
    /\ last.eff.available_to_send_to_user > 0
    /\ last.eff.invested_liquidity_to_disinvest > last.eff.invested_liquidity_to_send_to_user

---------------------------------------------------------------------------
(* SpecFees: charge_fees alone, called up to FeeCalls times on a vault     *)
(* whose fee rates, equity and time of the last charge are any of the      *)
(* values below, with time passing between the calls or not.               *)

HalfYear == SECONDS_PER_YEAR \div 2

FeeCalls == 2

\* the vaults charge_fees is called on: the zeroed vault of init_vault, and
\* vaults charged before (at most a year ago, now, or by a clock ahead of
\* this one)
FeeVaults ==
    {ZeroedVault}
    \cup {[CoreVault(1000, available, pending, table, <<charged, rates[1], rates[2], prev_aum>>, 0, 0, 0)
            EXCEPT !.cumulative_mgmt_fees_sf = Scale, !.cumulative_perf_fees_sf = Scale] :
            available \in {0, 1000, 1500},
            pending \in CorePendingFees,
            table \in {[i \in Slots |-> ZeroedAllocation],
                       [i \in Slots |-> IF i = 1 THEN LiveAllocation(1, 300, 1, 100)
                                        ELSE ZeroedAllocation]},
            charged \in {CoreNow - SECONDS_PER_YEAR, CoreNow - HalfYear, CoreNow,
                         CoreNow + HalfYear},
            rates \in {<<0, 0>>, <<1000, 0>>, <<0, 5000>>, <<1000, 5000>>},
            prev_aum \in {0, FractionFrom(1000), FractionFrom(1000) + Scale \div 2,
                          FractionFrom(2000)}}

InitFees ==
    /\ vault \in FeeVaults
    /\ reserves = CoreReserves(FALSE)
    /\ balances = CoreBalances(vault)
    /\ clock = [slot |-> CoreSlot, unix_timestamp |-> CoreNow]
    /\ last = NoInstruction

\* the Invested of holdings() on the refreshed reserves of the vault
InvestedNow(v) == amounts_invested(v, RefreshedAccounts(LiveReserves(v))).val

\* one call of charge_fees at the time of the clock
ChargeFees ==
    /\ last.seq < FeeCalls
    /\ vault' = charge_fees(vault, InvestedNow(vault), clock.unix_timestamp)
    /\ last' = [NoInstruction EXCEPT
                   !.seq = last.seq + 1,
                   !.op = "charge_fees",
                   !.args = [timestamp |-> clock.unix_timestamp,
                             invested_total |-> InvestedNow(vault).total],
                   !.pre_vault = vault]
    /\ UNCHANGED <<reserves, balances, clock>>

\* half a year or a year passes
PassTime ==
    /\ clock.slot < CoreSlot + MaxTicks
    /\ \E halves \in {1, 2} :
          clock' = [slot |-> clock.slot + 1,
                    unix_timestamp |-> clock.unix_timestamp + halves * HalfYear]
    /\ UNCHANGED <<vault, reserves, balances, last>>

NextFees == ChargeFees \/ PassTime

SpecFees == InitFees /\ [][NextFees]_vars

\* the AUM of a vault: its holdings less the pending fees, not below zero
AumOf(v, invested_total) ==
    SatSub(FractionFrom(v.token_available) + invested_total, v.pending_fees_sf)

\* the half years between the last charge and now
HalvesElapsed(v, now) == SatSub(now, v.last_fee_charge_timestamp) \div HalfYear

\* C12: a vault never charged (last_fee_charge_timestamp = 0) only has the
\* timestamp recorded.  Otherwise, with elapsed = max(0, now - last charge):
\* mgmt_charge is prev_aum * management_fee_bps/10000 * elapsed/seconds_per_year
\* and perf_charge is max(0, new_aum - prev_aum) * performance_fee_bps/10000,
\* both rounded down in fixed point (short of the exact value by less than
\* the rounding of the rate times the amount), perf_charge is zero when
\* new_aum <= prev_aum, pending_fees grows by min(mgmt_charge + perf_charge,
\* new_aum), prev_aum becomes new_aum less that, and the timestamp is now.
C12_ChargeFees ==
    last.op = "charge_fees" =>
        LET pre == last.pre_vault
            now == last.args.timestamp
            new_aum == AumOf(pre, last.args.invested_total)
            prev_aum == pre.prev_aum_sf
            halves == HalvesElapsed(pre, now)
            mgmt_charge == vault.cumulative_mgmt_fees_sf - pre.cumulative_mgmt_fees_sf
            perf_charge == vault.cumulative_perf_fees_sf - pre.cumulative_perf_fees_sf
            mgmt_exact == MulDiv(prev_aum * halves, pre.management_fee_bps, 2 * FULL_BPS)
            perf_exact == MulDiv(SatSub(new_aum, prev_aum), pre.performance_fee_bps, FULL_BPS)
            new_fees == Min(mgmt_charge + perf_charge, new_aum)
        IN IF pre.last_fee_charge_timestamp = 0
           THEN vault = [pre EXCEPT !.last_fee_charge_timestamp = now]
           ELSE /\ SatSub(now, pre.last_fee_charge_timestamp) = halves * HalfYear
                /\ mgmt_charge <= mgmt_exact
                /\ mgmt_exact - mgmt_charge <= (to_ceil(prev_aum) * (halves + 2)) \div 2 + 1
                /\ perf_charge <= perf_exact
                /\ perf_exact - perf_charge <= to_ceil(SatSub(new_aum, prev_aum)) + 1
                /\ new_aum <= prev_aum => perf_charge = 0
                /\ vault.pending_fees_sf = pre.pending_fees_sf + new_fees
                /\ vault.prev_aum_sf = new_aum - new_fees
                /\ vault.last_fee_charge_timestamp = now
                /\ vault.token_available = pre.token_available
                /\ vault.shares_issued = pre.shares_issued

\* half a year after the last charge, both fees were charged in full
C12_Witness ==
    /\ last.op = "charge_fees"
    /\ HalvesElapsed(last.pre_vault, last.args.timestamp) = 1
    /\ vault.cumulative_mgmt_fees_sf > last.pre_vault.cumulative_mgmt_fees_sf
    /\ vault.cumulative_perf_fees_sf > last.pre_vault.cumulative_perf_fees_sf
    /\ vault.pending_fees_sf - last.pre_vault.pending_fees_sf
          < AumOf(last.pre_vault, last.args.invested_total)

\* C13: a second call of charge_fees with the timestamp and the reserves of
\* the first leaves pending_fees and prev_aum as the first call left them
C13_FeeIdempotence ==
    (/\ last.op = "charge_fees"
     /\ last.seq >= 2
     /\ last.args.timestamp = last.pre_vault.last_fee_charge_timestamp) =>
        /\ vault.pending_fees_sf = last.pre_vault.pending_fees_sf
        /\ vault.prev_aum_sf = last.pre_vault.prev_aum_sf

\* the second of two calls at one time, the first of which charged fees that
\* the AUM did not cap
C13_Witness ==
    /\ last.op = "charge_fees"
    /\ last.seq = 2
    /\ last.args.timestamp = last.pre_vault.last_fee_charge_timestamp
    /\ last.pre_vault.pending_fees_sf > 0
    /\ last.pre_vault.prev_aum_sf > 0
    /\ last.pre_vault.performance_fee_bps > 0
    /\ last.pre_vault.cumulative_perf_fees_sf > Scale


\* the instructions that charge fees
FeeChargingOps ==
    {"deposit", "withdraw", "withdraw_pending_fees", "give_up_pending_fee", "invest",
     "update_vault_config"}

\* C14: every deposit, withdraw, withdraw_pending_fees, give_up_pending_fee,
\* invest and update_vault_config that succeeds at time now leaves
\* last_fee_charge_timestamp = now and has charged the management and
\* performance fees that charge_fees computes on the vault as it was before
\* the instruction (its fee rates, its prev_aum); unless the instruction pays
\* out or gives up fees, pending_fees is what that charge left.  After a
\* deposit, charging again at the same time adds nothing to pending_fees.
C14_FeesChargedFirst ==
    [][(last'.seq = last.seq + 1 /\ last'.op \in FeeChargingOps) =>
          LET now == clock.unix_timestamp
              charged == charge_fees(vault, InvestedNow(vault), now)
          IN /\ vault'.last_fee_charge_timestamp = now
             /\ vault'.cumulative_mgmt_fees_sf = charged.cumulative_mgmt_fees_sf
             /\ vault'.cumulative_perf_fees_sf = charged.cumulative_perf_fees_sf
             /\ last'.op \in {"deposit", "withdraw", "invest", "update_vault_config"}
                   => vault'.pending_fees_sf = charged.pending_fees_sf
             /\ last'.op \notin {"deposit", "withdraw", "invest", "update_vault_config"}
                   => vault'.pending_fees_sf <= charged.pending_fees_sf
             /\ last'.op = "deposit"
                   => charge_fees(vault', InvestedNow(vault'), now).pending_fees_sf
                         = vault'.pending_fees_sf
    ]_vars

\* a year after the vault was made its management fee is raised from zero:
\* no management fee is charged for that year
C14_Witness ==
    /\ last.op = "update_vault_config"
    /\ last.args.entry = "ManagementFeeBps"
    /\ vault.management_fee_bps > 0
    /\ clock.unix_timestamp > CoreNow
    /\ vault.last_fee_charge_timestamp = clock.unix_timestamp
    /\ vault.cumulative_mgmt_fees_sf = 0

---------------------------------------------------------------------------
(* SpecTargets: refresh_target_allocations alone, on every allocation      *)
(* table of the entries below.                                             *)

\* <<target_allocation_weight, token_allocation_cap>> of a live entry
TargetEntries ==
    {<<0, 300>>, <<1, 0>>, <<1, 100>>, <<1, 300>>, <<1, U64_MAX>>, <<3, 300>>,
     <<3, U64_MAX>>}

\* slot i is empty or holds reserve i
TargetTables ==
    {[i \in Slots |-> IF e[i] = <<>> THEN DefaultAllocation
                      ELSE LiveAllocation(i, 0, e[i][1], e[i][2])] :
        e \in [Slots -> TargetEntries \cup {<<>>}]}

InitTargets ==
    /\ \E table \in TargetTables, available \in {0, 1000, 1001},
          pending \in {0, Scale \div 2}, unallocated_weight \in {0, 1},
          unallocated_tokens_cap \in {0, 100} :
          vault = [CoreVault(1000, available, pending, table, <<CoreNow, 0, 0, 0>>, 0, 0, 0)
                      EXCEPT !.unallocated_weight = unallocated_weight,
                             !.unallocated_tokens_cap = unallocated_tokens_cap]
    /\ reserves = CoreReserves(FALSE)
    /\ balances = CoreBalances(ZeroedVault)
    /\ clock = [slot |-> CoreSlot, unix_timestamp |-> CoreNow]
    /\ last = NoInstruction

\* the Invested of a vault that holds no ctokens
NothingInvested(v) ==
    [allocations |->
        [i \in Slots |-> [DefaultInvestedReserve EXCEPT
                             !.reserve = v.vault_allocation_strategy[i].reserve,
                             !.target_weight =
                                 v.vault_allocation_strategy[i].target_allocation_weight]],
     total |-> 0]

\* the call with its result r
Refreshed(r) ==
    /\ last' = [NoInstruction EXCEPT
                   !.seq = 1, !.op = "refresh_target_allocations", !.err = r.err,
                   !.pre_vault = vault]
    /\ vault' = IF r.err = "Ok" THEN r.val ELSE vault
    /\ UNCHANGED <<reserves, balances, clock>>

RefreshTargets ==
    /\ last.op = "none"
    /\ Refreshed(refresh_target_allocations(vault, NothingInvested(vault)))

SpecTargets == InitTargets /\ [][RefreshTargets]_vars

\* the refresh succeeded
TargetsRefreshed == last.op = "refresh_target_allocations" /\ last.err = "Ok"

LiveSlots == {i \in Slots : vault.vault_allocation_strategy[i].reserve # DefaultPubkey}

TargetOf(i) == vault.vault_allocation_strategy[i].token_target_allocation_sf

CapOf(i) == FractionFrom(vault.vault_allocation_strategy[i].token_allocation_cap)

WeightOf(i) == vault.vault_allocation_strategy[i].target_allocation_weight

RECURSIVE SumTargetsFrom(_)
SumTargetsFrom(i) ==
    IF i > MAX_RESERVES THEN 0
    ELSE (IF i \in LiveSlots THEN TargetOf(i) ELSE 0) + SumTargetsFrom(i + 1)

\* the tokens left unallocated by the refresh
UnallocatedTarget ==
    unallocated_tokens_target_of(vault, AumOf(vault, 0), total_weight_from(vault, 1))

\* C15: after a refresh that succeeds no live reserve's target exceeds its
\* cap, and the targets and the unallocated target together do not exceed
\* the AUM
C15_TargetsWithinCapsAndAum ==
    TargetsRefreshed =>
        /\ \A i \in LiveSlots : TargetOf(i) <= CapOf(i)
        /\ SumTargetsFrom(1) + UnallocatedTarget <= AumOf(vault, 0)

\* three reserves, one with no cap, one capped out and one of weight zero,
\* and tokens withheld up to the unallocated cap
C15_Witness ==
    /\ TargetsRefreshed
    /\ Cardinality(LiveSlots) = 3
    /\ \E i \in LiveSlots : TargetOf(i) = CapOf(i) /\ TargetOf(i) > 0
    /\ \E i \in LiveSlots : TargetOf(i) > 0 /\ TargetOf(i) < CapOf(i)
    /\ UnallocatedTarget = FractionFrom(100)
    /\ SumTargetsFrom(1) + UnallocatedTarget > AumOf(vault, 0) - Scale

\* the table of the example: A of weight 1 capped at 300, B of weight 1
\* with no cap
CappedRebalance ==
    /\ Cardinality(LiveSlots) = 2
    /\ vault.unallocated_weight = 0
    /\ AumOf(vault, 0) = FractionFrom(1000)
    /\ \E a, b \in LiveSlots :
          /\ WeightOf(a) = 1 /\ CapOf(a) = FractionFrom(300)
          /\ WeightOf(b) = 1 /\ CapOf(b) = FractionFrom(U64_MAX)

\* C16: when a live reserve of positive weight is left strictly below its
\* cap the whole AUM is distributed: the targets and the unallocated target
\* fall short of it by less than one token.  Two reserves of weight 1, A
\* capped at 300 and B not capped, share an AUM of 1000 as 300 and 700.
C16_WaterFilling ==
    TargetsRefreshed =>
        /\ (\E i \in LiveSlots : WeightOf(i) > 0 /\ TargetOf(i) < CapOf(i))
              => AumOf(vault, 0) - (SumTargetsFrom(1) + UnallocatedTarget) < Scale
        /\ CappedRebalance =>
              \A i \in LiveSlots :
                  TargetOf(i) = IF CapOf(i) = FractionFrom(300) THEN FractionFrom(300)
                                ELSE FractionFrom(700)

\* the example, refreshed
C16_Witness ==
    /\ TargetsRefreshed
    /\ CappedRebalance
    /\ \E i \in LiveSlots : TargetOf(i) = FractionFrom(700)

\* C17: two live reserves left strictly below their caps have targets in
\* the proportion of their weights, up to the rounding of the passes (one
\* bit of the fraction a pass)
C17_ProportionalToWeight ==
    TargetsRefreshed =>
        \A i, j \in LiveSlots :
            (TargetOf(i) < CapOf(i) /\ TargetOf(j) < CapOf(j)) =>
                /\ TargetOf(i) * WeightOf(j) - TargetOf(j) * WeightOf(i)
                      <= (MAX_RESERVES + 1) * WeightOf(i)
                /\ TargetOf(j) * WeightOf(i) - TargetOf(i) * WeightOf(j)
                      <= (MAX_RESERVES + 1) * WeightOf(j)

\* reserves of weights 1 and 3 below their caps beside one that is capped
\* out, after more than one pass
C17_Witness ==
    /\ TargetsRefreshed
    /\ \E i, j, k \in LiveSlots :
          /\ WeightOf(i) = 1 /\ WeightOf(j) = 3
          /\ TargetOf(i) > 0 /\ TargetOf(i) < CapOf(i)
          /\ TargetOf(j) > 0 /\ TargetOf(j) < CapOf(j)
          /\ TargetOf(k) = CapOf(k) /\ TargetOf(k) > 0

\* C18 as worded: with unallocated_weight > 0 the tokens withheld are
\* min(AUM * unallocated_weight / (the weights of all live entries +
\* unallocated_weight), unallocated_tokens_cap), a cap of 0 being no cap;
\* with unallocated_weight = 0 nothing is withheld
C18_AsWorded ==
    TargetsRefreshed =>
        LET live_weights == total_weight_from([vault EXCEPT !.vault_allocation_strategy = [i \in Slots |-> [@[i] EXCEPT !.token_allocation_cap = U64_MAX]]], 1)
            share == MulDiv(AumOf(vault, 0), vault.unallocated_weight,
                            live_weights + vault.unallocated_weight)
        IN UnallocatedTarget =
              IF vault.unallocated_weight = 0 THEN 0
              ELSE IF vault.unallocated_tokens_cap = 0 THEN share
              ELSE Min(share, FractionFrom(vault.unallocated_tokens_cap))

---------------------------------------------------------------------------
(* SpecInvest: invest, update_reserve_allocation and remove_allocation on  *)
(* a vault whose min_invest_delay_slots is InvestDelay, slot after slot.   *)
(* Beside the instruction, last keeps the slot of the last successful      *)
(* invest in each reserve (NoReserve for none), which the allocation table *)
(* loses when an entry is removed.                                         *)

InvestDelay == 2

\* the slot in which the ctokens a vault starts with were bought
EarlierSlot == CoreSlot \div 2

\* <<ctoken_allocation, target_allocation_weight, token_allocation_cap>> of
\* reserve 1 and of reserve 2 (<<>> for a reserve that is not in the table)
InvestTables ==
    {<<<<0, 1, 1>>, <<200, 0, U64_MAX>>>>,
     <<<<300, 1, 100>>, <<0, 1, U64_MAX>>>>,
     <<<<300, 3, U64_MAX>>, <<200, 1, U64_MAX>>>>}

InvestTable(t) ==
    [i \in Slots |->
        IF i \in ReserveKeys /\ t[i] # <<>>
        THEN [LiveAllocation(i, t[i][1], t[i][2], t[i][3]) EXCEPT
                 !.last_invest_slot = IF t[i][1] > 0 THEN EarlierSlot ELSE 0]
        ELSE DefaultAllocation]

InitInvest ==
    /\ \E t \in InvestTables, available \in {1, 1000}, min_invest_amount \in {0, 100} :
          vault = [CoreVault(1000, available, 0, InvestTable(t), <<CoreNow, 0, 0, 0>>, 0, 0, 0)
                      EXCEPT !.min_invest_amount = min_invest_amount,
                             !.min_invest_delay_slots = InvestDelay,
                             !.available_crank_funds = 1]
    /\ reserves = CoreReserves(FALSE)
    /\ balances = CoreBalances(vault)
    /\ clock = [slot |-> CoreSlot, unix_timestamp |-> CoreNow]
    /\ last = [seq |-> 0, op |-> "none", err |-> "Ok", args |-> NoEffects,
               eff |-> NoEffects, calc |-> NoEffects, pre_vault |-> NoEffects,
               core_vault |-> NoEffects, slot |-> CoreSlot,
               invested_before |-> [k \in ReserveKeys |-> NoReserve],
               invested_at |-> [k \in ReserveKeys |->
                   IF is_allocated_to_reserve(vault, k)
                      /\ vault.vault_allocation_strategy[
                             get_reserve_idx_in_allocation(vault, k)].ctoken_allocation > 0
                   THEN EarlierSlot ELSE NoReserve]]

\* an instruction with outcome out: a transaction that fails changes nothing
\* (of those that fail the invests are kept); core_vault is the record as
\* the core operation left it, committed only on success
Ran(op, args, out) ==
    /\ last.seq < MaxInstructions
    /\ op = "invest" \/ out.err = "Ok"
    /\ last' = [seq |-> IF out.err = "Ok" THEN last.seq + 1 ELSE last.seq,
                op |-> op, err |-> out.err, args |-> args, eff |-> out.eff,
                calc |-> out.calc, pre_vault |-> vault, core_vault |-> out.vault,
                slot |-> clock.slot,
                invested_before |-> last.invested_at,
                invested_at |-> IF op = "invest" /\ out.err = "Ok"
                                THEN [last.invested_at EXCEPT ![args.reserve] = clock.slot]
                                ELSE last.invested_at]
    /\ vault' = IF out.err = "Ok" THEN out.vault ELSE vault
    /\ balances' = out.balances
    /\ UNCHANGED <<reserves, clock>>

InvestRun ==
    \E reserve \in ReserveKeys :
        Ran("invest", [reserve |-> reserve],
            invest_process(LiveReserves(vault), TRUE, reserve))

AllocationRun ==
    \E reserve \in ReserveKeys, weight \in {0, 1} :
        Ran("update_reserve_allocation",
            [reserve |-> reserve, target_allocation_weight |-> weight,
             allocation_cap |-> U64_MAX],
            update_reserve_allocation_process("admin", reserve, weight, U64_MAX))

RemovalRun ==
    \E reserve \in ReserveKeys :
        Ran("remove_allocation", [reserve |-> reserve],
            remove_allocation_process(reserve))

SlotRun ==
    /\ clock.slot < CoreSlot + InvestDelay
    /\ clock' = [clock EXCEPT !.slot = @ + 1]
    /\ UNCHANGED <<vault, reserves, balances, last>>

NextInvest == InvestRun \/ AllocationRun \/ RemovalRun \/ SlotRun

SpecInvest == InitInvest /\ [][NextInvest]_vars

\* C19 as worded: two successful invests in one reserve are at least
\* min_invest_delay_slots apart, whatever was done to the allocation table
\* between them: an invest at slot s in a reserve last invested in at a slot
\* above s - min_invest_delay_slots fails with InvestTooSoon, and one that
\* succeeds records s as the last_invest_slot of the reserve
C19_AsWorded ==
    last.op = "invest" =>
        LET before == last.invested_before[last.args.reserve]
            too_soon == before # NoReserve
                           /\ last.slot < before + last.pre_vault.min_invest_delay_slots
        IN /\ last.err = "Ok" =>
                 /\ ~too_soon
                 /\ vault.vault_allocation_strategy[
                        get_reserve_idx_in_allocation(vault, last.args.reserve)]
                            .last_invest_slot = last.slot
           /\ (too_soon /\ is_allocated_to_reserve(last.pre_vault, last.args.reserve))
                 => last.err = "InvestTooSoon"


\* the target of the reserve, recomputed as invest does on the vault v
FreshTarget(v, reserve, now) ==
    Let([invested \in {InvestedNow(v)} |->
        refresh_target_allocations(charge_fees(v, invested, now), invested).val
            .vault_allocation_strategy[get_reserve_idx_in_allocation(v, reserve)]
            .token_target_allocation_sf
    ])

\* the liquidity the vault holds in the reserve
CurrentInvested(v, reserve) == in_reserve(InvestedNow(v), reserve).liquidity_amount

\* the liquidity to move for a reserve at current, towards target
DeltaOf(current, target, available) ==
    IF current > target THEN current - target
    ELSE Min(target - current, FractionFrom(available))

\* the claim on an invest that got to choosing its direction
InvestAsClaimed(pre, current, target) ==
    /\ last.err = "InvestAmountBelowMinimum"
          <=> DeltaOf(current, target, pre.token_available)
                  <= FractionFrom(pre.min_invest_amount)
    /\ last.err = "Ok" =>
          /\ last.eff.direction = IF current > target THEN "Subtract" ELSE "Add"
          /\ last.calc.liquidity_f = DeltaOf(current, target, pre.token_available)
          /\ last.eff.direction = "Add" =>
                /\ last.eff.liquidity_amount <= pre.token_available
                /\ pre.token_available - vault.token_available <= last.eff.liquidity_amount

\* C20: an invest in a live reserve that is not too soon subtracts exactly
\* when the liquidity invested in the reserve is above its recomputed
\* target, the delta being current - target, and otherwise adds
\* min(target - current, token_available); it fails with
\* InvestAmountBelowMinimum exactly when the delta is at or below
\* min_invest_amount; what an Add spends is at most token_available.
C20_InvestDirection ==
    (last.op = "invest" /\ last.err \notin {"ReserveNotPartOfAllocations", "InvestTooSoon"})
        => InvestAsClaimed(last.pre_vault,
                           CurrentInvested(last.pre_vault, last.args.reserve),
                           FreshTarget(last.pre_vault, last.args.reserve,
                                       clock.unix_timestamp))

\* an Add that the tokens available cap, below the gap to the target
C20_Witness ==
    /\ last.op = "invest" /\ last.err = "Ok"
    /\ last.eff.direction = "Add"
    /\ last.pre_vault.token_available > 0
    /\ last.calc.liquidity_f = FractionFrom(last.pre_vault.token_available)
    /\ last.calc.liquidity_f
          < last.calc.target_tokens_invested - last.calc.actual_tokens_invested


\* the AUM of a vault on the reserves as they are
AumNow(v) == AumOf(v, InvestedNow(v).total)

\* C21: a successful invest, Add or Subtract, leaves the AUM (token_available
\* + invested liquidity - pending_fees, at the exchange rates of the
\* reserves, which the instruction does not move) at or above what it was
\* before the instruction moved anything: the rounding of the conversions
\* between collateral and liquidity never takes from it.
C21_InvestKeepsAum ==
    (last.op = "invest" /\ last.err = "Ok") =>
        /\ AumNow(vault) >= AumNow(last.pre_vault)
        /\ capture_aum(vault, RefreshedAccounts(LiveReserves(vault))).val
              >= AumNow(last.pre_vault)

\* an invest whose collateral is worth a fraction of a token more than the
\* tokens moved
C21_Witness ==
    /\ last.op = "invest" /\ last.err = "Ok"
    /\ frac(last.calc.liquidity_amount_f) > 0
    /\ last.eff.collateral_amount > 0
    /\ AumNow(vault) > AumNow(last.pre_vault)


\* the liquidity the collateral of the last invest converts to, at the rate
\* of its reserve
CollateralValue ==
    fraction_collateral_to_liquidity(
        collateral_exchange_rate(reserves[last.args.reserve]),
        FractionFrom(last.eff.collateral_amount))

\* 1 when that value has a fractional part, else 0
RoundingDelta == IF CollateralValue % Scale # 0 THEN 1 ELSE 0

\* C22: on a successful invest the rounding delta is 1 when the liquidity
\* value of collateral_amount has a fractional part and 0 otherwise; crank
\* funds that cover it pay it and the reported rounding_loss is 0, else the
\* crank funds stay and rounding_loss is the delta; liquidity_amount is the
\* value rounded up on Add and down on Subtract.
C22_RoundingDelta ==
    (last.op = "invest" /\ last.err = "Ok") =>
        /\ last.calc.liquidity_amount_f = CollateralValue
        /\ IF last.pre_vault.available_crank_funds >= RoundingDelta
           THEN /\ vault.available_crank_funds
                      = last.pre_vault.available_crank_funds - RoundingDelta
                /\ last.eff.rounding_loss = 0
           ELSE /\ vault.available_crank_funds = last.pre_vault.available_crank_funds
                /\ last.eff.rounding_loss = RoundingDelta
        /\ last.eff.direction = "Add" =>
              /\ last.eff.liquidity_amount * Scale >= CollateralValue
              /\ (last.eff.liquidity_amount - 1) * Scale < CollateralValue
        /\ last.eff.direction = "Subtract" =>
              /\ last.eff.liquidity_amount * Scale <= CollateralValue
              /\ (last.eff.liquidity_amount + 1) * Scale > CollateralValue

\* a fractional value met with no crank funds left to pay the delta
C22_Witness ==
    /\ last.op = "invest" /\ last.err = "Ok"
    /\ RoundingDelta = 1
    /\ last.pre_vault.available_crank_funds = 0
    /\ last.eff.rounding_loss = 1


InvestErrors ==
    {"ReserveNotPartOfAllocations", "InvestTooSoon", "InvestAmountBelowMinimum",
     "AUMBelowPendingFees"}

\* the fields of record v that C23 names
NamedFields(v) ==
    [targets |-> [i \in Slots |-> v.vault_allocation_strategy[i].token_target_allocation_sf],
     last_invest_slots |-> [i \in Slots |-> v.vault_allocation_strategy[i].last_invest_slot],
     token_available |-> v.token_available,
     available_crank_funds |-> v.available_crank_funds,
     pending_fees_sf |-> v.pending_fees_sf,
     prev_aum_sf |-> v.prev_aum_sf,
     last_fee_charge_timestamp |-> v.last_fee_charge_timestamp]

\* C23 as worded: when the core invest operation returns one of its errors,
\* the record it was called on is as before the call: every target and
\* last_invest_slot, token_available, available_crank_funds, pending_fees,
\* prev_aum and last_fee_charge_timestamp.
C23_AsWorded ==
    (last.op = "invest" /\ last.err \in InvestErrors) =>
        NamedFields(last.core_vault) = NamedFields(last.pre_vault)


----------------------------------------------------------------------------
(* SpecTable: the allocation table under update_reserve_allocation and      *)
(* remove_allocation alone, with one reserve more than the table has slots. *)
(* `last` keeps the instruction, how it ended, and the record it found.     *)

TableKeys == 1..(MAX_RESERVES + 1)

\* <<target_allocation_weight, allocation_cap>> of an upsert
TableUpserts == {<<0, 0>>, <<1, U64_MAX>>}

\* reserve 1 with `held` ctokens and no weight, a slot emptied by a removal,
\* reserve 2 invested and weighted
HeldTable(held) ==
    [i \in Slots |->
        IF i = 1 THEN LiveAllocation(1, held, 0, U64_MAX)
        ELSE IF i = 2 THEN DefaultAllocation
        ELSE IF i = 3 THEN LiveAllocation(2, 5, 1, U64_MAX)
        ELSE ZeroedAllocation]

InitTable ==
    /\ vault \in {ZeroedVault}
          \cup {CoreVault(1000, 1000, 0, HeldTable(held), <<CoreNow, 0, 0, 0>>, 0, 0, 0) :
                   held \in {0, 5}}
    /\ reserves = CoreReserves(FALSE)
    /\ balances = CoreBalances(ZeroedVault)
    /\ clock = [slot |-> CoreSlot, unix_timestamp |-> CoreNow]
    /\ last = NoInstruction

\* an instruction on the table with outcome out, kept whether it fails or not
TableStep(op, args, out) ==
    /\ last' = [NoInstruction EXCEPT !.op = op, !.err = out.err, !.args = args,
                                     !.pre_vault = vault]
    /\ vault' = IF out.err = "Ok" THEN out.vault ELSE vault
    /\ UNCHANGED <<reserves, balances, clock>>

TableUpsert ==
    \E reserve \in TableKeys, a \in TableUpserts :
        TableStep("update_reserve_allocation",
                  [reserve |-> reserve, target_allocation_weight |-> a[1],
                   allocation_cap |-> a[2]],
                  update_reserve_allocation_process("admin", reserve, a[1], a[2]))

TableRemove ==
    \E reserve \in TableKeys :
        TableStep("remove_allocation", [reserve |-> reserve],
                  remove_allocation_process(reserve))

NextTable == TableUpsert \/ TableRemove

SpecTable == InitTable /\ [][NextTable]_vars

\* the slots of record v that hold a reserve
Occupied(v) == {i \in Slots : v.vault_allocation_strategy[i].reserve # DefaultPubkey}

\* the slots of record v that hold reserve k
SlotsOf(v, k) == {i \in Slots : v.vault_allocation_strategy[i].reserve = k}

\* the empty slot of record v no empty slot precedes, if there is one
LowestEmpty(v) == {i \in Slots \ Occupied(v) : \A j \in Slots \ Occupied(v) : i <= j}

\* C24: no two occupied slots hold the same reserve; an upsert of a reserve
\* in the table changes the weight and cap of its entry and nothing else; an
\* upsert of a new reserve fills the first empty slot with an entry of
\* ctoken_allocation 0; with no empty slot it fails with
\* ReserveSpaceExhausted and the table is as it was.
C24_TableUpsert ==
    /\ \A i, j \in Occupied(vault) :
          vault.vault_allocation_strategy[i].reserve
              = vault.vault_allocation_strategy[j].reserve => i = j
    /\ last.op = "update_reserve_allocation" =>
          IF SlotsOf(last.pre_vault, last.args.reserve) # {}
          THEN /\ last.err = "Ok"
               /\ \E i \in SlotsOf(last.pre_vault, last.args.reserve) :
                     vault = [last.pre_vault EXCEPT
                                 !.vault_allocation_strategy[i].target_allocation_weight =
                                     last.args.target_allocation_weight,
                                 !.vault_allocation_strategy[i].token_allocation_cap =
                                     last.args.allocation_cap]
          ELSE IF LowestEmpty(last.pre_vault) # {}
          THEN /\ last.err = "Ok"
               /\ \E i \in LowestEmpty(last.pre_vault) :
                     /\ \A j \in Slots \ {i} :
                           vault.vault_allocation_strategy[j]
                               = last.pre_vault.vault_allocation_strategy[j]
                     /\ vault.vault_allocation_strategy[i].reserve = last.args.reserve
                     /\ vault.vault_allocation_strategy[i].ctoken_allocation = 0
                     /\ vault.vault_allocation_strategy[i].target_allocation_weight
                            = last.args.target_allocation_weight
                     /\ vault.vault_allocation_strategy[i].token_allocation_cap
                            = last.args.allocation_cap
          ELSE /\ last.err = "ReserveSpaceExhausted"
               /\ vault = last.pre_vault

\* an upsert of a new reserve into a table with a hole before its last entry
C24_Witness ==
    /\ last.op = "update_reserve_allocation" /\ last.err = "Ok"
    /\ SlotsOf(last.pre_vault, last.args.reserve) = {}
    /\ \E i \in LowestEmpty(last.pre_vault), j \in Occupied(last.pre_vault) : i < j

\* an upsert refused for want of a slot
C24_WitnessFull ==
    /\ last.op = "update_reserve_allocation"
    /\ last.err = "ReserveSpaceExhausted"

\* C25: remove_allocation empties the slot of a reserve only when its entry
\* has ctoken_allocation 0 and weight 0; otherwise it fails with
\* ReserveHasNonZeroAllocationOrCTokens, or ReserveNotPartOfAllocations for
\* a reserve not in the table, and the table is as it was; no instruction
\* on the table drops or rewrites an entry that holds collateral.
C25_TableRemove ==
    /\ last.op = "remove_allocation" =>
          IF SlotsOf(last.pre_vault, last.args.reserve) = {}
          THEN last.err = "ReserveNotPartOfAllocations" /\ vault = last.pre_vault
          ELSE \E i \in SlotsOf(last.pre_vault, last.args.reserve) :
                  IF /\ last.pre_vault.vault_allocation_strategy[i].ctoken_allocation = 0
                     /\ last.pre_vault.vault_allocation_strategy[i].target_allocation_weight = 0
                  THEN /\ last.err = "Ok"
                       /\ vault.vault_allocation_strategy[i].reserve = DefaultPubkey
                       /\ \A j \in Slots \ {i} :
                             vault.vault_allocation_strategy[j]
                                 = last.pre_vault.vault_allocation_strategy[j]
                  ELSE /\ last.err = "ReserveHasNonZeroAllocationOrCTokens"
                       /\ vault = last.pre_vault
    /\ last.op # "none" =>
          \A i \in Occupied(last.pre_vault) :
              last.pre_vault.vault_allocation_strategy[i].ctoken_allocation > 0 =>
                  /\ vault.vault_allocation_strategy[i].reserve
                         = last.pre_vault.vault_allocation_strategy[i].reserve
                  /\ vault.vault_allocation_strategy[i].ctoken_allocation
                         = last.pre_vault.vault_allocation_strategy[i].ctoken_allocation

\* a removal refused for an entry whose weight is 0 and that holds ctokens
C25_Witness ==
    /\ last.op = "remove_allocation"
    /\ last.err = "ReserveHasNonZeroAllocationOrCTokens"
    /\ \E i \in SlotsOf(vault, last.args.reserve) :
          /\ vault.vault_allocation_strategy[i].target_allocation_weight = 0
          /\ vault.vault_allocation_strategy[i].ctoken_allocation > 0


----------------------------------------------------------------------------
(* SpecHoldings: one call of holdings, on a table and a sequence of reserve *)
(* accounts drawn below; reserve 1 may be stale.                            *)

\* the reserve accounts passed: none, too few, in table order, in another
\* order, more than the table holds
HoldingsKeyLists == {<<>>, <<1>>, <<2>>, <<1, 2>>, <<2, 1>>, <<1, 2, 1>>}

InitHoldings ==
    /\ \E available \in {0, 1000}, table \in CoreTables :
          vault = CoreVault(1000, available, 0, table, <<CoreNow, 0, 0, 0>>, 0, 0, 0)
    /\ \E stale1 \in BOOLEAN : reserves = CoreReserves(stale1)
    /\ balances = CoreBalances(vault)
    /\ clock = [slot |-> CoreSlot, unix_timestamp |-> CoreNow]
    /\ last = NoInstruction

\* the call with outcome h; holdings borrows the record without mut
HoldingsCalled(keys, h) ==
    /\ last' = [NoInstruction EXCEPT !.op = "holdings", !.err = h.err,
                                     !.args = [keys |-> keys], !.eff = h.val,
                                     !.pre_vault = vault]
    /\ UNCHANGED <<vault, reserves, balances, clock>>

HoldingsCall ==
    /\ last.op = "none"
    /\ \E keys \in HoldingsKeyLists : HoldingsCalled(keys, holdings(vault, PlainAccounts(keys)))

SpecHoldings == InitHoldings /\ [][HoldingsCall]_vars

\* the k-th live entry of the table is not served by the k-th account
Unserved(k) ==
    \/ k > Len(last.args.keys)
    \/ last.args.keys[k] # LiveReserves(vault)[k]
    \/ reserves[last.args.keys[k]].stale

\* the error of the k-th live entry, the checks taken in the order of the code
ErrorAt(k) ==
    IF k > Len(last.args.keys) THEN "ReserveNotProvidedInTheAccounts"
    ELSE IF last.args.keys[k] # LiveReserves(vault)[k] THEN "ReserveAccountAndKeyMismatch"
    ELSE "ReserveIsStale"

\* the liquidity the ctokens of slot i convert to, in Fraction bits
LiquidityOfSlot(i) ==
    LET a == vault.vault_allocation_strategy[i]
    IN (a.ctoken_allocation * reserves[a.reserve].liquidity)
           \div reserves[a.reserve].collateral_supply

RECURSIVE SumLiquidityFrom(_)
SumLiquidityFrom(i) ==
    IF i > MAX_RESERVES THEN 0
    ELSE (IF i \in Occupied(vault) THEN LiquidityOfSlot(i) ELSE 0) + SumLiquidityFrom(i + 1)

C26_WitnessStale ==
    /\ last.op = "holdings" /\ last.err = "ReserveIsStale"
    /\ Len(last.args.keys) < Len(LiveReserves(vault))


----------------------------------------------------------------------------
(* SpecPendingFees: one withdraw_pending_fees or give_up_pending_fees, on   *)
(* vaults whose pending fees are nothing, a fraction of a token, a few      *)
(* tokens, or more than the vault holds (after a loss in a reserve).        *)

PendingFeeAmounts == {0, Scale \div 2, FractionFrom(2), FractionFrom(450), FractionFrom(1500)}

GiveUpAmounts == {0, 1, 500, U64_MAX}

InitPendingFees ==
    /\ \E available \in {0, 1, 1000}, pending \in PendingFeeAmounts, table \in CoreTables,
          fees \in {<<CoreNow, 0, 0, 0>>, <<CoreNow - SECONDS_PER_YEAR, MAX_MGMT_FEE_BPS, 0, FractionFrom(1000)>>} :
          vault = CoreVault(1000, available, pending, table, fees, 0, 0, 0)
    /\ reserves = CoreReserves(FALSE)
    /\ balances = CoreBalances(vault)
    /\ clock = [slot |-> CoreSlot, unix_timestamp |-> CoreNow]
    /\ last = NoInstruction

WithdrawFeesOnce ==
    /\ last.op = "none"
    /\ \E reserve \in ReserveKeys : WithdrawPendingFeesIx(LiveReserves(vault), TRUE, reserve)

GiveUpFeesOnce ==
    /\ last.op = "none"
    /\ \E max_amount \in GiveUpAmounts : GiveUpPendingFeesIx(LiveReserves(vault), TRUE, max_amount)

NextPendingFees == WithdrawFeesOnce \/ GiveUpFeesOnce

SpecPendingFees == InitPendingFees /\ [][NextPendingFees]_vars

\* the liquidity that reserve k of record v holds, in Fraction bits
InvestedIn(v, k) ==
    LET i == CHOOSE i \in SlotsOf(v, k) : TRUE
    IN (v.vault_allocation_strategy[i].ctoken_allocation * reserves[k].liquidity)
           \div reserves[k].collateral_supply

\* the pending fees after the accrual that opens the last instruction
AccruedFees ==
    charge_fees(last.pre_vault, InvestedNow(last.pre_vault), clock.unix_timestamp).pending_fees_sf

\* C27 as worded: a successful withdraw_pending_fees sends
\* floor(min(token_available, pending_fees)) of the idle tokens, draws the
\* rest from the named reserve, at most what the reserve holds, and takes
\* from the pending fees, as accrued, exactly what the effects report as
\* delivered: available_to_send_to_user + invested_liquidity_to_send_to_user;
\* the pending fees do not go below 0.
C27_AsWorded ==
    (last.op = "withdraw_pending_fees" /\ last.err = "Ok") =>
        /\ last.eff.available_to_send_to_user
               = Min(FractionFrom(last.pre_vault.token_available), AccruedFees) \div Scale
        /\ FractionFrom(last.eff.invested_liquidity_to_send_to_user)
               <= InvestedIn(last.pre_vault, last.args.reserve)
        /\ vault.pending_fees_sf >= 0
        /\ vault.pending_fees_sf
               = AccruedFees
                    - FractionFrom(last.eff.available_to_send_to_user
                                       + last.eff.invested_liquidity_to_send_to_user)


\* what record v holds: its idle tokens and the liquidity of its ctokens
HeldBy(v) == FractionFrom(v.token_available) + InvestedNow(v).total

\* the reserve accounts of record v, refreshed
AccountsOf(v) == RefreshedAccounts(LiveReserves(v))

\* deposit, withdraw and invest on record v all end with error e
AllRefusedWith(v, e) ==
    /\ deposit(v, AccountsOf(v), 500, clock.slot, clock.unix_timestamp).err = e
    /\ \A k \in ReserveKeys :
          is_allocated_to_reserve(v, k) =>
              /\ withdraw(v, k, ReserveAccount(k), AccountsOf(v), clock.unix_timestamp,
                          clock.slot, 500, 1000).err = e
              /\ invest(v, AccountsOf(v), ReserveAccount(k), k, clock.slot,
                        clock.unix_timestamp).err = e

\* C28: give_up_pending_fee succeeds also when the pending fees exceed what
\* the vault holds, where deposit, withdraw and invest fail with
\* AUMBelowPendingFees; it takes min(max_amount, pending_fees) off the
\* pending fees as accrued, sets last_fee_charge_timestamp to now and
\* prev_aum to max(0, holdings - new pending fees); when max_amount covers
\* the deficit, the AUM can be computed afterwards and an accrual at the
\* same timestamp adds no fees.
C28_GiveUpPendingFee ==
    last.op = "give_up_pending_fee" =>
        /\ last.err = "Ok"
        /\ AccruedFees > HeldBy(last.pre_vault) =>
               AllRefusedWith(last.pre_vault, "AUMBelowPendingFees")
        /\ vault.pending_fees_sf
               = AccruedFees - Min(FractionFrom(last.args.max_amount_to_give_up), AccruedFees)
        /\ vault.last_fee_charge_timestamp = clock.unix_timestamp
        /\ vault.prev_aum_sf
               = IF HeldBy(last.pre_vault) >= vault.pending_fees_sf
                 THEN HeldBy(last.pre_vault) - vault.pending_fees_sf ELSE 0
        /\ FractionFrom(last.args.max_amount_to_give_up)
               >= AccruedFees - HeldBy(last.pre_vault) =>
               /\ compute_aum(vault, InvestedNow(vault).total).err = "Ok"
               /\ charge_fees(vault, InvestedNow(vault), clock.unix_timestamp).pending_fees_sf
                      = vault.pending_fees_sf

\* fees above the holdings, given up by as much as the deficit or more, with
\* fees left pending
C28_Witness ==
    /\ last.op = "give_up_pending_fee" /\ last.err = "Ok"
    /\ AccruedFees > HeldBy(last.pre_vault)
    /\ FractionFrom(last.args.max_amount_to_give_up) >= AccruedFees - HeldBy(last.pre_vault)
    /\ vault.pending_fees_sf > 0
    /\ vault.prev_aum_sf > 0


----------------------------------------------------------------------------
(* SpecConfig: update_vault_config and update_admin after init_vault, each  *)
(* signed by one of three identities.  Anchor's has_one constraint refuses  *)
(* the instruction when the signer is not the one the account names.  Next  *)
(* to the instruction, `last` keeps the identities proposed as pending      *)
(* admin by an update that landed and those that signed an update_admin     *)
(* that landed.                                                             *)

Identities == {"admin", "alice", "bob"}

\* <<entry, data>> of an update_vault_config: each limited field at its limit
\* and one above, the management fee also at FULL_BPS; the admins
ConfigUpdates ==
    {<<"PerformanceFeeBps", FULL_BPS>>, <<"PerformanceFeeBps", FULL_BPS + 1>>,
     <<"ManagementFeeBps", MAX_MGMT_FEE_BPS>>, <<"ManagementFeeBps", MAX_MGMT_FEE_BPS + 1>>,
     <<"ManagementFeeBps", FULL_BPS>>,
     <<"MinWithdrawAmount", UPPER_LIMIT_MIN_WITHDRAW_AMOUNT>>,
     <<"MinWithdrawAmount", UPPER_LIMIT_MIN_WITHDRAW_AMOUNT + 1>>}
    \cup {<<"PendingVaultAdmin", k>> : k \in Identities}
    \cup {<<"AllocationAdmin", "alice">>}

\* whoever signs makes the pending admin the admin
MutUpdateAdminAnySigner(signer) ==
    Outcome([err |-> "Ok",
             vault |-> [vault EXCEPT !.vault_admin_authority = vault.pending_admin],
             eff |-> NoEffects, calc |-> NoEffects], balances)

\* handler_update_admin::process, behind has_one = pending_admin
update_admin_process(signer) ==
    IF signer # vault.pending_admin
    THEN Outcome(Failed("ConstraintHasOne", vault), balances)
    ELSE Outcome([err |-> "Ok",
                  vault |-> [vault EXCEPT !.vault_admin_authority = vault.pending_admin],
                  eff |-> NoEffects, calc |-> NoEffects], balances)

\* handler_update_vault_config::process, behind has_one = vault_admin_authority
signed_update_vault_config_process(signer, entry, data) ==
    IF signer # vault.vault_admin_authority
    THEN Outcome(Failed("ConstraintHasOne", vault), balances)
    ELSE update_vault_config_process(LiveReserves(vault), TRUE, entry, data)

InitConfig ==
    /\ vault = InitVault
    /\ reserves = CoreReserves(FALSE)
    /\ balances = CoreBalances(InitVault)
    /\ clock = [slot |-> CoreSlot, unix_timestamp |-> CoreNow]
    /\ last = [op |-> "none", err |-> "Ok", args |-> NoEffects, pre_vault |-> NoEffects,
               proposed |-> {}, accepted |-> {}]

\* a signed instruction with outcome out, kept whether it fails or not
Signed(op, args, out) ==
    /\ last' = [op |-> op, err |-> out.err, args |-> args, pre_vault |-> vault,
                proposed |-> IF op = "update_vault_config" /\ out.err = "Ok"
                                  /\ args.entry = "PendingVaultAdmin"
                             THEN last.proposed \cup {args.data} ELSE last.proposed,
                accepted |-> IF op = "update_admin" /\ out.err = "Ok"
                             THEN last.accepted \cup {args.signer} ELSE last.accepted]
    /\ vault' = IF out.err = "Ok" THEN out.vault ELSE vault
    /\ UNCHANGED <<reserves, balances, clock>>

UpdateConfigSigned ==
    \E signer \in Identities, u \in ConfigUpdates :
        Signed("update_vault_config", [signer |-> signer, entry |-> u[1], data |-> u[2]],
               signed_update_vault_config_process(signer, u[1], u[2]))

UpdateAdminSigned ==
    \E signer \in Identities :
        Signed("update_admin", [signer |-> signer, entry |-> "none", data |-> 0],
               update_admin_process(signer))

NextConfig == UpdateConfigSigned \/ UpdateAdminSigned

SpecConfig == InitConfig /\ [][NextConfig]_vars

\* C29: vault_admin_authority changes through update_admin alone, which is
\* accepted exactly when its signer is the stored pending_admin and makes
\* that identity the admin; update_vault_config(PendingVaultAdmin), signed by
\* the admin, sets pending_admin and leaves vault_admin_authority; so the
\* admin is the initial one, or an identity that was proposed as
\* pending_admin and signed an update_admin.
C29_TwoPhaseAdmin ==
    /\ vault.vault_admin_authority \in
           {InitVault.vault_admin_authority} \cup (last.proposed \cap last.accepted)
    /\ last.op # "none" =>
          /\ vault.vault_admin_authority # last.pre_vault.vault_admin_authority =>
                 last.op = "update_admin" /\ last.err = "Ok"
          /\ last.op = "update_admin" =>
                 /\ last.err = "Ok" <=> last.args.signer = last.pre_vault.pending_admin
                 /\ last.err = "Ok" =>
                        vault = [last.pre_vault EXCEPT
                                    !.vault_admin_authority = last.pre_vault.pending_admin]
          /\ (last.op = "update_vault_config" /\ last.args.entry = "PendingVaultAdmin") =>
                 /\ last.err = "Ok" <=>
                        last.args.signer = last.pre_vault.vault_admin_authority
                 /\ last.err = "Ok" =>
                        /\ vault.pending_admin = last.args.data
                        /\ vault.vault_admin_authority
                               = last.pre_vault.vault_admin_authority
                        /\ [vault EXCEPT !.pending_admin = last.pre_vault.pending_admin]
                               = charge_fees(last.pre_vault, InvestedNow(last.pre_vault),
                                             clock.unix_timestamp)

\* the admin is an identity other than the initial one, after it was proposed
\* and signed
C29_Witness ==
    /\ last.op = "update_admin" /\ last.err = "Ok"
    /\ vault.vault_admin_authority # InitVault.vault_admin_authority
    /\ last.pre_vault.vault_admin_authority = InitVault.vault_admin_authority

\* the value a limited field of record v may not exceed
LimitOf(entry) ==
    CASE entry = "PerformanceFeeBps" -> FULL_BPS
      [] entry = "ManagementFeeBps" -> MAX_MGMT_FEE_BPS
      [] entry = "MinWithdrawAmount" -> UPPER_LIMIT_MIN_WITHDRAW_AMOUNT

LimitError(entry) ==
    CASE entry = "PerformanceFeeBps" -> "BPSValueTooBig"
      [] entry = "ManagementFeeBps" -> "ManagementFeeGreaterThanMaxAllowed"
      [] entry = "MinWithdrawAmount" -> "MinWithdrawAmountTooBig"

FieldOf(v, entry) ==
    CASE entry = "PerformanceFeeBps" -> v.performance_fee_bps
      [] entry = "ManagementFeeBps" -> v.management_fee_bps
      [] entry = "MinWithdrawAmount" -> v.min_withdraw_amount

LimitedFields == {"PerformanceFeeBps", "ManagementFeeBps", "MinWithdrawAmount"}

\* C30: after init_vault and any updates of the configuration,
\* performance_fee_bps is at most 10000, management_fee_bps at most
\* MAX_MGMT_FEE_BPS = 1000 (so at most 10000), min_withdraw_amount at most
\* UPPER_LIMIT_MIN_WITHDRAW_AMOUNT = 1000; an update by the admin with a
\* larger value is refused with BPSValueTooBig,
\* ManagementFeeGreaterThanMaxAllowed or MinWithdrawAmountTooBig and the
\* field keeps its value; one within the limit sets the field.
C30_ConfigLimits ==
    /\ \A entry \in LimitedFields : FieldOf(vault, entry) <= LimitOf(entry)
    /\ vault.management_fee_bps <= FULL_BPS
    /\ (/\ last.op = "update_vault_config"
        /\ last.args.entry \in LimitedFields
        /\ last.args.signer = last.pre_vault.vault_admin_authority) =>
          IF last.args.data > LimitOf(last.args.entry)
          THEN /\ last.err = LimitError(last.args.entry)
               /\ FieldOf(vault, last.args.entry) = FieldOf(last.pre_vault, last.args.entry)
          ELSE /\ last.err = "Ok"
               /\ FieldOf(vault, last.args.entry) = last.args.data

\* a management fee of FULL_BPS refused where a fee is already set
C30_Witness ==
    /\ last.op = "update_vault_config"
    /\ last.args.entry = "ManagementFeeBps" /\ last.args.data = FULL_BPS
    /\ last.err = "ManagementFeeGreaterThanMaxAllowed"
    /\ vault.management_fee_bps = MAX_MGMT_FEE_BPS


\* C31: once init_vault has made its seed deposit, whose 1000 shares are
\* issued to no holder, shares_issued is the holders' share balance plus the
\* seed shares in every state, and so above 0: withdraw burns at most the
\* shares the caller holds.
C31_SeedShares ==
    /\ vault.shares_issued = balances.user_shares_ata + INITIAL_DEPOSIT_AMOUNT
    /\ balances.user_shares_ata >= 0
    /\ vault.shares_issued > 0

\* a holder has withdrawn every share it had
C31_Witness ==
    /\ last.op = "withdraw"
    /\ last.seq >= 2
    /\ balances.user_shares_ata = 0
    /\ vault.shares_issued = INITIAL_DEPOSIT_AMOUNT


\* the three cumulative counters of record v
Counters(v) ==
    <<v.cumulative_earned_interest_sf, v.cumulative_mgmt_fees_sf, v.cumulative_perf_fees_sf>>

\* C32: over every step of every run, none of the cumulative counters of
\* earned interest, management fees and performance fees decreases.
C32_CountersMonotone ==
    [][\A i \in 1..3 : Counters(vault')[i] >= Counters(vault)[i]]_vars

\* a deposit has charged a management fee
C32_Witness ==
    /\ last.op = "deposit"
    /\ vault.cumulative_mgmt_fees_sf > 0
    /\ vault.pending_fees_sf > 0


\* the slot of the reserve the last instruction names, in the record before it
NamedSlot == get_reserve_idx_in_allocation(last.pre_vault, last.args.reserve)

\* C33: on every successful withdraw that names a reserve, the liquidity
\* disinvested is at least the liquidity sent to the user from it, the
\* ctokens redeemed are at most the ctoken_allocation of the reserve, and
\* the record changes by: token_available less available_to_send_to_user
\* plus the surplus invested_liquidity_to_disinvest -
\* invested_liquidity_to_send_to_user, the ctoken_allocation of the reserve
\* less invested_to_disinvest_ctokens, shares_issued less shares_to_burn;
\* the entries of the other reserves are as before.
C33_WithdrawLedger ==
    (last.op = "withdraw" /\ last.err = "Ok" /\ last.args.reserve # NoReserve) =>
        /\ last.eff.invested_liquidity_to_disinvest
               >= last.eff.invested_liquidity_to_send_to_user
        /\ last.eff.invested_to_disinvest_ctokens
               <= last.pre_vault.vault_allocation_strategy[NamedSlot].ctoken_allocation
        /\ vault.token_available
               = last.pre_vault.token_available - last.eff.available_to_send_to_user
                    + (last.eff.invested_liquidity_to_disinvest
                           - last.eff.invested_liquidity_to_send_to_user)
        /\ vault.vault_allocation_strategy[NamedSlot]
               = [last.pre_vault.vault_allocation_strategy[NamedSlot] EXCEPT
                     !.ctoken_allocation = @ - last.eff.invested_to_disinvest_ctokens]
        /\ vault.shares_issued = last.pre_vault.shares_issued - last.eff.shares_to_burn
        /\ \A i \in Slots \ {NamedSlot} :
              vault.vault_allocation_strategy[i] = last.pre_vault.vault_allocation_strategy[i]

\* a withdraw that redeems ctokens of one of two reserves and leaves a
\* surplus in the vault
C33_Witness ==
    /\ last.op = "withdraw" /\ last.err = "Ok" /\ last.args.reserve # NoReserve
    /\ last.eff.invested_to_disinvest_ctokens > 0
    /\ last.eff.invested_liquidity_to_disinvest > last.eff.invested_liquidity_to_send_to_user
    /\ Cardinality(Occupied(vault)) = 2


\* the AUM of the record the last instruction found, after the fee accrual
\* that opens it
AumAccrued ==
    AumNow(charge_fees(last.pre_vault, InvestedNow(last.pre_vault), clock.unix_timestamp))

\* C34: a successful withdraw does not lower the price of a share: with the
\* exchange rates as they were, AUM after * shares_issued before >= AUM
\* before (fees accrued) * shares_issued after, whether the 1-unit rounding
\* adjustment was applied or not.
C34_WithdrawKeepsPrice ==
    (last.op = "withdraw" /\ last.err = "Ok") =>
        GeqProduct(AumNow(vault), last.pre_vault.shares_issued,
                   AumAccrued, vault.shares_issued)

\* a withdraw from a reserve with the rounding adjustment applied and the
\* collateral rounded up
C34_Witness ==
    /\ last.op = "withdraw" /\ last.err = "Ok" /\ last.args.reserve # NoReserve
    /\ last.calc.liquidity_rounding_error = 1
    /\ last.eff.invested_to_disinvest_ctokens > 0
    /\ vault.shares_issued < last.pre_vault.shares_issued


---------------------------------------------------------------------------
(* SpecRoundTrip: a deposit in each of the states of SpecDeposit, and then, *)
(* at the same time and slot, a withdraw of the shares it minted           *)

RoundTripReserves == {NoReserve, 1, 2}

DepositFirst ==
    /\ last.op = "none"
    /\ \E keys \in KeyLists(vault), max_amount \in DepositAmounts :
          DepositIx(keys, FALSE, max_amount)

WithdrawMinted ==
    /\ last.op = "deposit" /\ last.err = "Ok"
    /\ \E keys \in KeyLists(vault), reserve \in RoundTripReserves :
          Commit("withdraw",
                 [requested_shares |-> last.eff.shares_to_mint,
                  number_of_shares |-> Min(last.eff.shares_to_mint,
                                           balances.user_shares_ata),
                  reserve |-> reserve, keys |-> keys,
                  token_to_deposit |-> last.eff.token_to_deposit,
                  shares_issued |-> last.calc.shares_issued],
                 withdraw_process(keys, FALSE, reserve, last.eff.shares_to_mint))

NextRoundTrip == DepositFirst \/ WithdrawMinted

SpecRoundTrip == InitDeposit /\ [][NextRoundTrip]_vars

\* the tokens the last instruction paid to the user
TokensReturned == balances.user_token_ata - last.pre_balances.user_token_ata

\* C35: a successful deposit into a vault with shares_issued > 0 does not
\* lower the price of a share: (AUM + token_to_deposit) * shares_issued >=
\* AUM * (shares_issued + shares_to_mint), AUM being the value after the fee
\* accrual; and a withdraw of the minted shares right after it pays the user
\* at most token_to_deposit.
C35_DepositKeepsPrice ==
    /\ (DepositOk /\ last.calc.shares_issued > 0) =>
          GeqProduct(last.calc.current_vault_aum + FractionFrom(last.eff.token_to_deposit),
                     last.calc.shares_issued,
                     last.calc.current_vault_aum,
                     last.calc.shares_issued + last.eff.shares_to_mint)
    /\ (last.op = "withdraw" /\ last.err = "Ok" /\ last.args.shares_issued > 0) =>
          TokensReturned <= last.args.token_to_deposit

\* a deposit that paid more than the minted shares were worth, and a withdraw
\* of them that returned less than was deposited
C35_Witness ==
    /\ last.op = "withdraw" /\ last.err = "Ok" /\ last.args.shares_issued > 0
    /\ TokensReturned > 0
    /\ TokensReturned < last.args.token_to_deposit

\* a deposit at a share price that is not a whole number, paid rounded up
C35_WitnessDeposit ==
    /\ DepositOk /\ last.calc.shares_issued > 0
    /\ last.eff.shares_to_mint > 0
    /\ frac(last.calc.current_vault_aum) # 0
    /\ ~GeqProduct(last.calc.current_vault_aum + FractionFrom(last.eff.token_to_deposit - 1),
                   last.calc.shares_issued,
                   last.calc.current_vault_aum,
                   last.calc.shares_issued + last.eff.shares_to_mint)


---------------------------------------------------------------------------
(* SpecLedger: runs of successful deposits, withdraws, fee withdrawals and *)
(* invests on a live vault whose accounts hold what its ledger records     *)

InitLedger ==
    /\ \E available \in {0, 1000}, pending \in CorePendingFees, table \in CoreTables,
          crank_fee \in {0, 1} :
          vault = [CoreVault(1000, available, pending, table,
                             <<CoreNow - SECONDS_PER_YEAR, 1000, 5000, FractionFrom(1000)>>,
                             crank_fee, 0, 0)
                      EXCEPT !.available_crank_funds = crank_fee * 5]
    /\ reserves = CoreReserves(FALSE)
    /\ balances = CoreBalances(vault)
    /\ clock = [slot |-> CoreSlot, unix_timestamp |-> CoreNow]
    /\ last = NoInstruction

NextLedger == Deposit \/ Withdraw \/ WithdrawPendingFees \/ Invest

SpecLedger == InitLedger /\ [][NextLedger]_vars

\* the collateral the ledger records for reserve k
LedgerCtokens(v, k) ==
    IF is_allocated_to_reserve(v, k)
    THEN v.vault_allocation_strategy[get_reserve_idx_in_allocation(v, k)].ctoken_allocation
    ELSE 0

\* C36: after any sequence of successful instructions since init_vault, with
\* the transfers of the returned Effects carried out exactly, the vault's
\* token account holds token_available + available_crank_funds and its
\* collateral account of each reserve holds that entry's ctoken_allocation.
C36_LedgerMatchesBalances ==
    /\ balances.token_vault = vault.token_available + vault.available_crank_funds
    /\ \A k \in ReserveKeys : balances.ctoken_vault[k] = LedgerCtokens(vault, k)

\* a withdraw that redeemed collateral of reserve 1 after an invest into it:
\* the reserve has paid out and still holds collateral of the vault
C36_Witness ==
    /\ last.op = "withdraw" /\ last.args.reserve = 1
    /\ last.seq >= 2
    /\ balances.ctoken_vault[1] > 0
    /\ vault.token_available + vault.available_crank_funds > 0
    /\ balances.reserve_liquidity_supply[1] < 1000

\* collateral bought by an invest
C36_WitnessInvest ==
    /\ last.op = "invest"
    /\ balances.reserve_liquidity_supply[last.args.reserve] > 1000
    /\ balances.ctoken_vault[last.args.reserve] > 0

\* fees paid out of a reserve
C36_WitnessFees ==
    /\ last.op = "withdraw_pending_fees"
    /\ balances.admin_token_ata > 0
    /\ balances.reserve_liquidity_supply[last.args.reserve] < 1000


\* the holdings, the record after the fee accrual and the AUM that the last
\* withdraw computed from the accounts it was given
WithdrawHoldings == holdings(last.pre_vault, PlainAccounts(last.args.keys))

WithdrawAum ==
    compute_aum(charge_fees(last.pre_vault, WithdrawHoldings.val.invested,
                            clock.unix_timestamp),
                WithdrawHoldings.val.invested.total)

\* the last instruction was a withdraw that passed its AUM > 0 check
PassedAumCheck ==
    /\ last.op = "withdraw"
    /\ last.args.number_of_shares > 0
    /\ last.args.reserve # NoReserve
          => is_allocated_to_reserve(last.pre_vault, last.args.reserve)
    /\ WithdrawHoldings.err = "Ok"
    /\ WithdrawAum.err = "Ok"
    /\ WithdrawAum.val > 0

\* C37: in every withdraw that passes its AUM > 0 check the denominator
\* floor(AUM) of the shares_to_burn computation is not zero, and the call
\* ends with Effects or an error, not with an abort in that division.
C37_AsWorded ==
    PassedAumCheck =>
        /\ to_floor(WithdrawAum.val) # 0
        /\ (last.args.reserve = NoReserve) => last.err # "Panic"


---------------------------------------------------------------------------
(* SpecWindDown: invests and removals on vaults that hold collateral of   *)
(* reserves whose weight has been set to 0; time passes, and invest is a  *)
(* crank anyone can call                                                  *)

\* <<ctoken_allocation, target_allocation_weight, token_allocation_cap>> of
\* reserve 1 and of reserve 2
WindDownTables ==
    {<<<<0, 1, 1>>, <<200, 0, U64_MAX>>>>,
     <<<<300, 0, 100>>, <<200, 1, U64_MAX>>>>,
     <<<<100, 0, U64_MAX>>, <<50, 0, U64_MAX>>>>}

InitWindDown ==
    /\ \E t \in WindDownTables, available \in {1, 1000}, min_invest_amount \in {0, 100},
          invested_last \in {EarlierSlot, CoreSlot - 1} :
          vault = [CoreVault(1000, available, 0,
                             [i \in Slots |->
                                [InvestTable(t)[i] EXCEPT !.last_invest_slot =
                                    IF i \in ReserveKeys /\ t[i][1] > 0
                                    THEN invested_last ELSE 0]],
                             <<CoreNow, 0, 0, 0>>, 0, 0, 0)
                      EXCEPT !.min_invest_amount = min_invest_amount,
                             !.min_invest_delay_slots = InvestDelay,
                             !.available_crank_funds = 1]
    /\ reserves = CoreReserves(FALSE)
    /\ balances = CoreBalances(vault)
    /\ clock = [slot |-> CoreSlot, unix_timestamp |-> CoreNow]
    /\ last = [seq |-> 0, op |-> "none", err |-> "Ok", args |-> NoEffects,
               eff |-> NoEffects, calc |-> NoEffects, pre_vault |-> NoEffects,
               core_vault |-> NoEffects, slot |-> CoreSlot,
               invested_before |-> [k \in ReserveKeys |-> NoReserve],
               invested_at |-> [k \in ReserveKeys |-> NoReserve]]

NextWindDown == InvestRun \/ RemovalRun \/ SlotRun

\* the entry of reserve k in record v
EntryOf(v, k) == v.vault_allocation_strategy[get_reserve_idx_in_allocation(v, k)]

\* reserve k of record v has weight 0 and holds collateral
ToWindDown(v, k) ==
    /\ is_allocated_to_reserve(v, k)
    /\ EntryOf(v, k).target_allocation_weight = 0
    /\ EntryOf(v, k).ctoken_allocation > 0

\* and its liquidity is above min_invest_amount, its invest delay over
WindDownReady(v, k, slot) ==
    /\ ToWindDown(v, k)
    /\ CurrentInvested(v, k) > FractionFrom(v.min_invest_amount)
    /\ slot >= EntryOf(v, k).last_invest_slot + v.min_invest_delay_slots

\* invest called on reserve k
InvestOn(k) ==
    Ran("invest", [reserve |-> k], invest_process(LiveReserves(vault), TRUE, k))

\* Weak fairness of invest on a reserve ready to be wound down, its enabling
\* condition written out: the call is not left uncalled for ever while the
\* reserve is ready and an instruction can still land
Cranked(k) ==
    \/ []<>(~(WindDownReady(vault, k, clock.slot) /\ last.seq < MaxInstructions))
    \/ []<><<InvestOn(k)>>_vars

SpecWindDown ==
    /\ InitWindDown /\ [][NextWindDown]_vars
    /\ WF_vars(SlotRun)
    /\ \A k \in ReserveKeys : Cranked(k)


\* after an invest in a reserve to wind down
WoundDown ==
    (last.op = "invest" /\ ToWindDown(last.pre_vault, last.args.reserve)) =>
        /\ last.err = "Ok" =>
              /\ last.eff.direction = "Subtract"
              /\ last.eff.collateral_amount
                    = EntryOf(last.pre_vault, last.args.reserve).ctoken_allocation
              /\ EntryOf(vault, last.args.reserve).ctoken_allocation = 0
              /\ balances.ctoken_vault[last.args.reserve] = 0
              /\ remove_allocation_process(last.args.reserve).err = "Ok"
        /\ WindDownReady(last.pre_vault, last.args.reserve, last.slot) => last.err = "Ok"

---------------------------------------------------------------------------
(* SpecPasses: refresh_target_allocations pass by pass, on the vaults of  *)
(* SpecTargets.  last.calc is the loop's state, last.seq the passes run.  *)

\* the counters and targets at the head of the while loop
LoopEntry(v, total_tokens, total_weight) ==
    [remaining_tokens |->
         total_tokens - unallocated_tokens_target_of(v, total_tokens, total_weight),
     remaining_weight |-> total_weight,
     targets |-> [i \in Slots |-> 0],
     a_cap_was_reached |-> FALSE,
     err |-> "Ok"]

\* the table with the targets of loop state st written to the live entries
FilledCaps(v, st) ==
    [v EXCEPT !.vault_allocation_strategy =
        [i \in Slots |->
            IF v.vault_allocation_strategy[i].reserve # DefaultPubkey
            THEN [v.vault_allocation_strategy[i] EXCEPT
                     !.token_target_allocation_sf = st.targets[i]]
            ELSE v.vault_allocation_strategy[i]]]

Entered(aum) ==
    /\ last' = IF aum.err # "Ok"
               THEN [NoInstruction EXCEPT !.op = "done", !.err = aum.err]
               ELSE [NoInstruction EXCEPT
                        !.op = "loop",
                        !.calc = LoopEntry(vault, aum.val, total_weight_from(vault, 1))]
    /\ UNCHANGED <<vault, reserves, balances, clock>>

EnterLoop ==
    /\ last.op = "none"
    /\ Entered(compute_aum(vault, NothingInvested(vault).total))

Passed(after) ==
    /\ last' = [last EXCEPT
                   !.seq = @ + 1,
                   !.calc = after,
                   !.err = after.err,
                   !.op = IF after.err # "Ok" THEN "done"
                          ELSE IF ~after.a_cap_was_reached THEN "broken"
                          ELSE "loop"]
    /\ UNCHANGED <<vault, reserves, balances, clock>>

\* one pass of the while loop
LoopPass ==
    /\ last.op = "loop"
    /\ last.calc.remaining_tokens > 0 /\ last.calc.remaining_weight > 0
    /\ Passed(refresh_pass(vault, NothingInvested(vault), last.calc.remaining_tokens,
                           last.calc.remaining_weight, 1,
                           [last.calc EXCEPT !.a_cap_was_reached = FALSE]))

\* the loop is left, by its condition or by the break, and the caps are filled
LoopEnd ==
    /\ \/ last.op = "broken"
       \/ /\ last.op = "loop"
          /\ ~(last.calc.remaining_tokens > 0 /\ last.calc.remaining_weight > 0)
    /\ last' = [last EXCEPT !.op = "done", !.pre_vault = vault]
    /\ vault' = FilledCaps(vault, last.calc)
    /\ UNCHANGED <<reserves, balances, clock>>

NextPasses == EnterLoop \/ LoopPass \/ LoopEnd

SpecPasses == InitTargets /\ [][NextPasses]_vars

\* the live reserves of positive weight whose target in loop state st is
\* their cap
Pinned(st) ==
    {i \in LiveSlots :
        /\ vault.vault_allocation_strategy[i].target_allocation_weight > 0
        /\ vault.vault_allocation_strategy[i].token_allocation_cap > 0
        /\ st.targets[i] = CapOf(i)}

\* in the loop: the counters are not below zero, no more passes than live
\* reserves + 1 have run, and the loop ends as refresh_target_allocations does
LoopBounded ==
    /\ last.calc # NoEffects =>
          /\ last.calc.remaining_tokens >= 0
          /\ last.calc.remaining_weight >= 0
          /\ last.seq <= Cardinality(LiveSlots) + 1
          /\ \A i \in Slots : last.calc.targets[i] >= 0
    /\ (last.op = "done" /\ last.err = "Ok") =>
          vault = refresh_target_allocations(
                      last.pre_vault, NothingInvested(last.pre_vault)).val

\* a pass that is not the last one pins a reserve more and lowers the
\* remaining weight
PassPins ==
    (last.op = "loop" /\ last'.op = "loop" /\ last'.seq = last.seq + 1) =>
        /\ Pinned(last.calc) \subseteq Pinned(last'.calc)
        /\ Pinned(last.calc) # Pinned(last'.calc)
        /\ last'.calc.remaining_weight < last.calc.remaining_weight
        /\ last'.calc.remaining_tokens < last.calc.remaining_tokens

\* C39: refresh_target_allocations terminates: every pass of its loop pins
\* at its cap at least one more reserve of positive weight, lowering the
\* remaining weight, or is the last pass; there are at most (live reserves
\* + 1) passes, and the remaining tokens and the remaining weight never go
\* below zero.
C39_RefreshTerminates == []LoopBounded /\ [][PassPins]_vars

\* a loop of three passes, two of them pinning a reserve
C39_Witness ==
    /\ last.op = "done" /\ last.err = "Ok"
    /\ last.seq = 3
    /\ Cardinality(Pinned(last.calc)) = 2

\* a loop left by its condition after every reserve was pinned
C39_WitnessAllPinned ==
    /\ last.op = "done" /\ last.err = "Ok"
    /\ last.calc.remaining_weight = 0
    /\ last.calc.remaining_tokens > 0
    /\ last.seq = Cardinality(LiveSlots)
    /\ last.seq >= 2

====
